---------------------------- MODULE Spec2Model ----------------------------
(***************************************************************************)
(* A model of the message-transport layer and the worker pool of           *)
(* stsolovey/diplom-distributed-system.                                    *)
(*                                                                         *)
(*   - MemoryQueue (internal/queue/memory_queue.go): Enqueue, Dequeue,     *)
(*     Subscribe, Stats, Close, and MemoryAdapter.Subscribe;               *)
(*   - WorkerPool (internal/processor/worker_pool.go): Start, runWorker,   *)
(*     processMessage, Stop;                                               *)
(*   - CompositeAdapter (internal/queue/composite_adapter.go): Publish     *)
(*     under FailFast (errgroup) and BestEffort, Stats;                    *)
(*   - the subscribe loops of NATSSubscriber and kafkaConsumerHandler.     *)
(*                                                                         *)
(* Go channels are sequences with a capacity, goroutines are processes     *)
(* with a program counter, and a select statement with several ready       *)
(* cases is a nondeterministic choice among them (the runtime picks one    *)
(* pseudo-randomly).  A *models.DataMessage is a pointer into heap.        *)
(***************************************************************************)
EXTENDS Integers, Sequences, FiniteSets, TLC

(***************************************************************************)
(* Bounds of the model.                                                    *)
(***************************************************************************)
\* messages the callers allocate and try to publish
MaxMsgs == 3
\* capacity `size` given to NewMemoryQueue
QueueCap == 2
\* capacity of the channel a Subscribe returns (100 in the source, scaled
\* down so that a full channel is reached)
SubBufCap == 1
\* workers given to NewWorkerPool
NWorkers == 2
\* children of a CompositeAdapter
NChildren == 2
\* records the broker holds for the subscribe loops
MaxRecords == 2
\* calls of Subscribe on one streaming subscriber
MaxSubs == 2

\* calls of consumerGroup.Consume that end while the scope is live
MaxConsume == 2

\* resultsBufferMultiplier
resultsBufferMultiplier == 2
\* MaxDeliver of the durable consumer
MaxDeliver == 3

Ptrs     == 1..MaxMsgs
\* the objects of messagePool: one per Publish at most
PoolPtrs == (MaxMsgs + 1)..(2 * MaxMsgs)
\* the callers of Publish: one thread of calls (the single publisher)
Pubs     == {1}
Workers  == 1..NWorkers
Children == 1..NChildren
Queues   == Children
Records  == 1..MaxRecords

Nil == 0

(***************************************************************************)
(* State.                                                                  *)
(***************************************************************************)
VARIABLES
    \* ---- messages allocated by callers
    heap,           \* [Ptrs \cup PoolPtrs -> DataMessage]: the objects behind the pointers
    nextMsg,        \* number of messages allocated so far
    \* ---- MemoryQueue, one per queue index (index 1 is "the" provider)
    messages,       \* [Queues -> Seq(Ptrs)]: q.messages, the buffered channel
    closed,         \* [Queues -> BOOLEAN]: q.closed (and q.messages is closed)
    stats,          \* [Queues -> [TotalEnqueued, TotalDequeued]]: q.stats
    \* ---- callers of MemoryQueue.Publish
    ppc,            \* [Pubs -> "idle" | "select" | "count" | "panicked"]
    pcall,          \* [Pubs -> [ptr, ctxDone]]: the call in progress
    pres,           \* [Pubs -> last return value of Publish]
    \* ---- the subscription (Subscribe's goroutine and the channel it returns)
    ctx,            \* scope given to Subscribe / Start: "live" | "canceled" | "deadline"
    svariant,       \* "queue" (MemoryQueue.Subscribe) | "adapter" (MemoryAdapter.Subscribe)
    sret,           \* [err]: the error Subscribe returned ("none" before the call)
    clret,          \* [err, onClosed]: what the last Close returned ("none", "nil", or "panic"
                    \* for a close of a closed channel), and whether it found q.closed set
    pobjs,          \* the objects messagePool.New has made (pointers into heap)
    pool,           \* the objects messagePool holds: Put adds one, Get takes one
    cheld,          \* Seq of [ptr, msg]: the objects Dequeue returned to its caller, each
                    \* with the contents it had then
    ssrc,           \* the queue the goroutine of Subscribe dequeues from
    aggIn,          \* Seq of [kind, enq, deq, closeOk]: the providers Stats and Close are
                    \* called over
    ccOut,          \* [called, attempted, err]: the providers Close has called Close on, and
                    \* the provider whose error it returned wrapped (0: it returned nil)
    aggOut,         \* what Stats returned (NoStats before the call)
    qimpl,          \* qimpl[q]: "memory" (MemoryQueue) or "optimized" (OptimizedMemoryQueue)
    spc,            \* "none" | "dequeue" | "deqcount" | "send" | "done"
    sheld,          \* pointer the loop holds between Dequeue and the hand-off
    msgChan,        \* Seq(Ptrs): the channel returned by Subscribe
    msgChanClosed,  \* BOOLEAN: close(msgChan) has run
    \* ---- history (ghost) variables
    accepted,       \* Seq of [ptr, msg]: messages in the order q.messages took them
    received,       \* Seq of DataMessage: what the reader of the stream got, in order
    eos,            \* the reader of the stream has observed end-of-stream
    \* ---- WorkerPool
    nworkers,       \* the `workers` argument of NewWorkerPool: workers 1..nworkers are launched
    wpc,            \* [Workers -> "none" | "recv" | "process" | "emit" | "exited"]
    wmsg,           \* [Workers -> pointer the worker took from wp.msgChan]
    wres,           \* [Workers -> result the worker is about to emit]
    results,        \* Seq of ProcessingResult: wp.results
    resultsClosed,  \* close(wp.results) has run
    wpStats,        \* [ProcessedCount, ErrorCount]: wp.stats
    stopPc,         \* Stop: "none" | "waiting" (in wg.Wait) | "returned"
    drainPc,        \* the goroutine Stop starts: "none" | "running" | "done"
    \* ---- history (ghost) variables of the pool
    wread,          \* Seq of pointers: what the workers read from the input stream
    emitted,        \* number of results ever placed on wp.results
    collected,      \* set of results the reader of Results() has got
    ncollected,     \* how many results the reader of Results() has got
    \* ---- CompositeAdapter over the queues 1..Len(ckind)
    ckind,          \* c.providers: Seq of "memory" | "failing" (Publish always fails)
    cstrategy,      \* c.strategy: "FailFast" | "BestEffort"
    cpc,            \* the caller of Publish: "idle" | "wait" (in g.Wait / wg.Wait)
    ccall,          \* [ptr, ctxDone, before, free]: the (last) call and what held at its start
    cret,           \* last return value of CompositeAdapter.Publish
    gpc,            \* [Children -> "idle" | "run" | "select" | "count" | "done" | "panicked"]
    gerr,           \* [Children -> what the child's Publish returned]
    groupErr,       \* errgroup: the first error ("nil" while there is none)
    groupDone,      \* errgroup: groupCtx has been cancelled
    errorCount,     \* BestEffort: errorCount
    csent,          \* [Children -> Seq of pointers]: what each memory child accepted, in order
    \* ---- the broker behind a streaming (NATS) or log (Kafka) subscriber
    bkind,          \* "nats" (NATSSubscriber) | "kafka" (kafkaConsumerHandler)
    brecs,          \* Seq of [valid]: the records of the stream / the partition
    bstate,         \* [Records -> "none" | "pending" | "inflight" | "acked" | "marked" | "term"]
    bdeliv,         \* [Records -> deliveries the durable consumer counts for the record]
    bctx,           \* scope given to Subscribe: "live" | "canceled"
    bsess,          \* the consumer-group session: "live" | "ended"
    bpc,            \* the loop: "none" | "top" | "next" | "decode" | "handoff" | "ack" | "return" | "done"
    bcur,           \* record the loop holds (msg / message)
    bchan,          \* Seq of records: msgChan, the output channel of the loop
    bchanClosed,    \* close(msgChan) has run
    bsubs,          \* number of Subscribe calls made so far
    bconn,          \* the connection to the broker: "open" | "closed"
    \* ---- the adapter over the subscriber (NATSAdapter / KafkaAdapter)
    bwrap,          \* BOOLEAN: Subscribe was called on the adapter, not on the subscriber
    wrpc,           \* the counting goroutine: "none" | "recv" | "send" | "done"
    wheld,          \* record the counting goroutine holds
    wchan,          \* Seq of records: wrappedChan / countedChan
    wchanClosed,    \* close(wrappedChan) has run
    wdeq,           \* totalDequeued / stats.consumed of the adapter
    \* ---- history (ghost) variables of the loops
    bhandoff,       \* [Records -> "none" | "accepted" | "interrupted"]: how the hand-off of
                    \* the latest delivery of the record ended
    bsent,          \* Seq of records: what msgChan accepted, in order
    brecv,          \* Seq of records: what the reader of msgChan got, in order
    \* ---- NATSAdapter.Publish over NATSPublisher.Publish
    npc,            \* the call: "idle" | "js" (p.js.Publish in flight) | "reply"
    nmsg,           \* id of the message of the call
    jsReply,        \* what p.js.Publish returned: "none" | "ack" | "nilack" | "error"
    jsStream,       \* Seq of message ids: what the JetStream stream stored
    ncount,         \* [totalEnqueued, errors]: the counters of the adapter
    npret,          \* [calls, err]: calls returned so far, and the error of the last
    \* ---- KafkaConsumer.Subscribe
    kpc,            \* the caller: "idle" | "read" | "wait" | "returned"
    kgo,            \* the goroutine: "none" | "consume" | "session" | "after" | "done"
    kctx,           \* consumeCtx: "live" | "canceled"
    kready,         \* the channel c.handler.ready holds (channels are numbered)
    kreadyClosed,   \* the channels close(h.ready) has closed
    kwaitOn,        \* the channel the caller receives from
    kmsgClosed,     \* close(c.handler.msgChan) has run
    \* ---- Factory.CreateProvider
    fcfg,           \* f.config: [QueueType, CompositeProviders, CompositeStrategy], and
                    \* whether the brokers can be reached: [natsUp, kafkaUp]
    fpc,            \* the call: "idle" | "children" | "strategy" | "returned"
    fprov,          \* Seq of [kind, open]: the providers the call has created
    fret            \* [provider, err]: what CreateProvider returned

mqVars == <<heap, nextMsg, messages, closed, stats, ppc, pcall, pres, ctx,
            svariant, sret, clret, qimpl, ssrc, spc, sheld, msgChan, msgChanClosed, accepted, received, eos>>

\* everything that is not state of the memory provider and its subscription
wpVars == <<nworkers, wpc, wmsg, wres, results, resultsClosed, wpStats, stopPc, drainPc,
            wread, emitted, collected, ncollected>>

compVars == <<ckind, cstrategy, cpc, ccall, cret, gpc, gerr, groupErr, groupDone,
              errorCount, csent>>

\* the adapter's goroutine and channel
wrapVars == <<bwrap, wrpc, wheld, wchan, wchanClosed, wdeq>>

\* the calls made on the subscriber and its connection
connVars == <<bsubs, bconn>>

brkVars == <<bkind, brecs, bstate, bdeliv, bctx, bsess, bpc, bcur, bchan,
             bchanClosed, bhandoff, bsent, brecv, wrapVars, connVars>>

\* the objects of messagePool and what a consumer of Dequeue holds
optVars == <<pobjs, pool, cheld>>

\* the providers of a composite in any state, and the results of a call of
\* CompositeAdapter.Stats and of CompositeAdapter.Close over them
aggVars == <<aggIn, aggOut, ccOut>>

\* a call of NATSAdapter.Publish and the counters of the adapter
natsPubVars == <<npc, nmsg, jsReply, jsStream, ncount, npret>>

\* a call of KafkaConsumer.Subscribe and its goroutine
kafkaSubVars == <<kpc, kgo, kctx, kready, kreadyClosed, kwaitOn, kmsgClosed>>

\* a call of Factory.CreateProvider
facVars == <<fcfg, fpc, fprov, fret>>

adpVars == <<natsPubVars, kafkaSubVars, facVars>>

\* what lies outside the providers, the pool, the composite and the brokers
otherVars == <<optVars, aggVars, adpVars>>

nonMQ == <<wpVars, compVars, brkVars, otherVars>>

(***************************************************************************)
(* models.DataMessage: the value a caller builds before Publish.           *)
(***************************************************************************)
NewMessage(p, who) ==
    [id |-> p, timestamp |-> 1700000000 + p, source |-> who,
     payload |-> <<p, p>>, metadata |-> [k \in {"k"} |-> p]]

\* a slot of heap that holds no message yet
NoMessage ==
    [id |-> 0, timestamp |-> 0, source |-> 0, payload |-> <<>>,
     metadata |-> [k \in {"k"} |-> 0]]

\* no Publish call in progress
NoCall == [ptr |-> Nil, ctxDone |-> FALSE]

\* ctx.Done() is ready
CtxDone(c) == c # "live"

(***************************************************************************)
(* MemoryQueue.Enqueue.                                                    *)
(***************************************************************************)
\* The outcomes of the select of Enqueue for a channel with contents buf,
\* capacity cap, closed flag isClosed and a scope whose Done is ready iff done.
\*   case q.messages <- msg   ready iff the channel is closed (it panics) or has room
\*   case <-ctx.Done()         ready iff done
\*   default                   taken iff no case is ready
\* (variant: the capacity test is off by one, so a full buffer still takes a message)
EnqueueSelectOffByOne(buf, cap, isClosed, done) ==
    LET sendReady == isClosed \/ Len(buf) <= cap
        ready == (IF sendReady THEN {IF isClosed THEN "panic" ELSE "sent"} ELSE {})
                 \cup (IF done THEN {"canceled"} ELSE {})
    IN  IF ready = {} THEN {"ErrQueueFull"} ELSE ready

EnqueueSelect(buf, cap, isClosed, done) ==
    LET sendReady == isClosed \/ Len(buf) < cap
        ready == (IF sendReady THEN {IF isClosed THEN "panic" ELSE "sent"} ELSE {})
                 \cup (IF done THEN {"canceled"} ELSE {})
    IN  IF ready = {} THEN {"ErrQueueFull"} ELSE ready

\* Publish(ctx, msg) is called with a scope that is cancelled (done) or not:
\* the message object exists, and the RLock'd check of q.closed runs.
PublishCallWith(p, done) ==
    /\ ppc[p] = "idle"
    /\ nextMsg < MaxMsgs
    /\ LET ptr == nextMsg + 1 IN
         /\ nextMsg' = ptr
         /\ heap' = [heap EXCEPT ![ptr] = NewMessage(ptr, p)]
         /\ IF closed[1]
              THEN /\ pres' = [pres EXCEPT ![p] = "ErrQueueClosed"]
                   /\ UNCHANGED <<ppc, pcall>>
              ELSE /\ pres' = [pres EXCEPT ![p] = "pending"]
                   /\ ppc' = [ppc EXCEPT ![p] = "select"]
                   /\ pcall' = [pcall EXCEPT ![p] = [ptr |-> ptr, ctxDone |-> done]]
    /\ UNCHANGED <<messages, closed, stats, ctx, svariant, sret, clret, qimpl, ssrc, spc, sheld, msgChan,
                   msgChanClosed, accepted, received, eos>>
    /\ UNCHANGED nonMQ

\* a caller of Publish with any scope
PublishCall(p) == \E done \in BOOLEAN : PublishCallWith(p, done)

\* a caller of Publish whose scope is live (the publishers of the pool's
\* scenarios: their messages are to be published successfully)
PublishCallLive(p) == PublishCallWith(p, FALSE)

\* (variant: Enqueue counts the attempt, whatever the select does)
PublishSelectCountsAttempts(p) ==
    /\ ppc[p] = "select"
    /\ \E o \in EnqueueSelect(messages[1], QueueCap, closed[1], pcall[p].ctxDone) :
         /\ messages' = IF o = "sent" THEN [messages EXCEPT ![1] = Append(@, pcall[p].ptr)]
                        ELSE messages
         /\ accepted' = IF o = "sent"
                          THEN Append(accepted, [ptr |-> pcall[p].ptr, msg |-> heap[pcall[p].ptr]])
                          ELSE accepted
         /\ stats' = [stats EXCEPT ![1].TotalEnqueued = @ + 1]
         /\ ppc' = [ppc EXCEPT ![p] = IF o = "panic" THEN "panicked" ELSE "idle"]
         /\ pres' = [pres EXCEPT ![p] = IF o = "sent" THEN "nil" ELSE o]
         /\ pcall' = [pcall EXCEPT ![p] = NoCall]
    /\ UNCHANGED <<heap, nextMsg, closed, ctx, svariant, sret, clret, qimpl, ssrc, spc, sheld, msgChan,
                   msgChanClosed, received, eos>>
    /\ UNCHANGED nonMQ

\* The select of Enqueue (memory_queue.go:56-67).
PublishSelect(p) ==
    /\ ppc[p] = "select"
    /\ \E o \in EnqueueSelect(messages[1], QueueCap, closed[1], pcall[p].ctxDone) :
         /\ CASE o = "sent" ->
                   /\ messages' = [messages EXCEPT ![1] = Append(@, pcall[p].ptr)]
                   /\ accepted' = Append(accepted, [ptr |-> pcall[p].ptr,
                                                    msg |-> heap[pcall[p].ptr]])
                   /\ ppc' = [ppc EXCEPT ![p] = "count"]
                   /\ UNCHANGED <<pres, pcall>>
              [] o = "panic" ->
                   /\ ppc' = [ppc EXCEPT ![p] = "panicked"]
                   /\ pres' = [pres EXCEPT ![p] = "panic"]
                   /\ pcall' = [pcall EXCEPT ![p] = NoCall]
                   /\ UNCHANGED <<messages, accepted>>
              [] OTHER ->
                   /\ ppc' = [ppc EXCEPT ![p] = "idle"]
                   /\ pres' = [pres EXCEPT ![p] = o]
                   /\ pcall' = [pcall EXCEPT ![p] = NoCall]
                   /\ UNCHANGED <<messages, accepted>>
    /\ UNCHANGED <<heap, nextMsg, closed, stats, ctx, svariant, sret, clret, qimpl, ssrc, spc, sheld, msgChan,
                   msgChanClosed, received, eos>>
    /\ UNCHANGED nonMQ

\* q.stats.TotalEnqueued++ under the lock, then return nil.
PublishCount(p) ==
    /\ ppc[p] = "count"
    /\ stats' = [stats EXCEPT ![1].TotalEnqueued = @ + 1]
    /\ ppc' = [ppc EXCEPT ![p] = "idle"]
    /\ pres' = [pres EXCEPT ![p] = "nil"]
    /\ pcall' = [pcall EXCEPT ![p] = NoCall]
    /\ UNCHANGED <<heap, nextMsg, messages, closed, ctx, svariant, sret, clret, qimpl, ssrc, spc, sheld,
                   msgChan, msgChanClosed, accepted, received, eos>>
    /\ UNCHANGED nonMQ

\* what a caller makes of a message it goes on using: another id, payload
\* and metadata in the same object
MutatedMessage(m) ==
    [m EXCEPT !.id = 0 - m.id, !.payload = <<0>>, !.metadata = [k \in {"k"} |-> 0 - m.id]]

\* The caller of a Publish that returned nil writes to the message object it
\* passed (once per message): Enqueue put the caller's pointer into
\* q.messages (`case q.messages <- msg`), so the object is the same.
CallerMutate(k) ==
    /\ k \in 1..Len(accepted)
    /\ LET ptr == accepted[k].ptr IN
         /\ \A p \in Pubs : pcall[p].ptr # ptr
         /\ heap[ptr] = accepted[k].msg
         /\ heap' = [heap EXCEPT ![ptr] = MutatedMessage(@)]
    /\ UNCHANGED <<nextMsg, messages, closed, stats, ppc, pcall, pres, ctx, svariant, sret,
                   clret, qimpl, ssrc, spc, sheld, msgChan, msgChanClosed, accepted, received, eos>>
    /\ UNCHANGED nonMQ

\* (variant: the snapshot also counts the message the Subscribe goroutine holds)
StatsCountsHeld(qi) ==
    [TotalEnqueued |-> stats[qi].TotalEnqueued,
     TotalDequeued |-> stats[qi].TotalDequeued,
     CurrentSize   |-> Len(messages[qi]) + (IF spc = "send" /\ ssrc = qi THEN 1 ELSE 0)]

\* MemoryQueue.Stats: the snapshot a caller gets now.
Stats(qi) ==
    [TotalEnqueued |-> stats[qi].TotalEnqueued,
     TotalDequeued |-> stats[qi].TotalDequeued,
     CurrentSize   |-> Len(messages[qi])]

(***************************************************************************)
(* MemoryQueue.Dequeue and the Subscribe goroutines.                       *)
(***************************************************************************)
\* The outcomes of the select of Dequeue: a receive is ready when the channel
\* holds a message or is closed (then it yields nil), ctx.Done when done.
\* (variant: a receive that does not wait, an empty channel reads as a closed one)
DequeueSelectNonBlocking(buf, isClosed, done) ==
    (IF buf # <<>> THEN {"msg"} ELSE {"ErrQueueClosed"})
    \cup (IF done THEN {"canceled"} ELSE {})

DequeueSelect(buf, isClosed, done) ==
    (IF buf # <<>> THEN {"msg"} ELSE IF isClosed THEN {"ErrQueueClosed"} ELSE {})
    \cup (IF done THEN {"canceled"} ELSE {})

\* Subscribe(ctx): makes the channel and starts the goroutine.  Neither
\* MemoryQueue.Subscribe nor MemoryAdapter.Subscribe looks at q.closed, and
\* both return a nil error.
Subscribe ==
    /\ spc = "none"
    /\ \E v \in {"queue", "adapter"} : svariant' = v
    /\ sret' = [err |-> "nil"]
    /\ spc' = "dequeue"
    /\ UNCHANGED <<clret, qimpl, ssrc, heap, nextMsg, messages, closed, stats, ppc, pcall, pres, ctx,
                   sheld, msgChan, msgChanClosed, accepted, received, eos>>
    /\ UNCHANGED nonMQ

\* Whether the goroutine returns on an error of Dequeue.
\*   MemoryAdapter.Subscribe: on every error.
\*   MemoryQueue.Subscribe: only if errors.Is(err, context.Canceled) or
\*   errors.Is(err, ErrQueueClosed); otherwise it continues.
\* (variant: the goroutine returns on cancellation only)
SubscribeReturnsOnCancelOnly(variant, outcome, c) ==
    outcome = "canceled"

SubscribeReturnsOn(variant, outcome, c) ==
    \/ variant = "adapter"
    \/ outcome = "ErrQueueClosed"
    \/ outcome = "canceled" /\ c = "canceled"

\* One call of q.Dequeue(ctx) by the goroutine, up to the receive.
SubDequeue ==
    /\ spc = "dequeue"
    /\ \E o \in DequeueSelect(messages[ssrc], closed[ssrc], CtxDone(ctx)) :
         CASE o = "msg" ->
                /\ sheld' = Head(messages[ssrc])
                /\ messages' = [messages EXCEPT ![ssrc] = Tail(@)]
                /\ spc' = "deqcount"
                /\ UNCHANGED msgChanClosed
           [] OTHER ->
                /\ IF SubscribeReturnsOn(svariant, o, ctx)
                     THEN spc' = "done" /\ msgChanClosed' = TRUE
                     ELSE spc' = spc /\ msgChanClosed' = msgChanClosed
                /\ UNCHANGED <<sheld, messages>>
    /\ UNCHANGED <<heap, nextMsg, closed, stats, ppc, pcall, pres, ctx, svariant, sret, clret, qimpl, ssrc,
                   msgChan, accepted, received, eos>>
    /\ UNCHANGED nonMQ

\* q.stats.TotalDequeued++ under the lock; Dequeue returns the message.
SubDeqCount ==
    /\ spc = "deqcount"
    /\ stats' = [stats EXCEPT ![ssrc].TotalDequeued = @ + 1]
    /\ spc' = "send"
    /\ UNCHANGED <<heap, nextMsg, messages, closed, ppc, pcall, pres, ctx, svariant, sret, clret, qimpl, ssrc,
                   sheld, msgChan, msgChanClosed, accepted, received, eos>>
    /\ UNCHANGED nonMQ

\* The hand-off select of the goroutine:
\*   case msgChan <- msg:      ready iff msgChan has room
\*   case <-ctx.Done(): return
\* (variant: a full channel ends the loop instead of blocking it)
HandOffSelectNoBlock(ch, cap, done) ==
    IF Len(ch) < cap THEN {"sent"} ELSE {"return"}

HandOffSelect(ch, cap, done) ==
    (IF Len(ch) < cap THEN {"sent"} ELSE {}) \cup (IF done THEN {"return"} ELSE {})

SubSend ==
    /\ spc = "send"
    /\ \E o \in HandOffSelect(msgChan, SubBufCap, CtxDone(ctx)) :
         CASE o = "sent" ->
                /\ msgChan' = Append(msgChan, sheld)
                /\ spc' = "dequeue"
                /\ UNCHANGED msgChanClosed
           [] OTHER ->
                /\ spc' = "done"
                /\ msgChanClosed' = TRUE
                /\ UNCHANGED msgChan
    /\ sheld' = Nil
    /\ UNCHANGED <<heap, nextMsg, messages, closed, stats, ppc, pcall, pres, ctx,
                   svariant, sret, clret, qimpl, ssrc, accepted, received, eos>>
    /\ UNCHANGED nonMQ

\* The reader of the returned stream takes the next message, or sees the end.
StreamRecv ==
    /\ spc # "none"
    /\ ~eos
    /\ IF msgChan # <<>>
         THEN /\ received' = Append(received, heap[Head(msgChan)])
              /\ msgChan' = Tail(msgChan)
              /\ eos' = eos
         ELSE /\ msgChanClosed
              /\ eos' = TRUE
              /\ UNCHANGED <<received, msgChan>>
    /\ UNCHANGED <<heap, nextMsg, messages, closed, stats, ppc, pcall, pres, ctx,
                   svariant, sret, clret, qimpl, ssrc, spc, sheld, msgChanClosed, accepted>>
    /\ UNCHANGED nonMQ

(***************************************************************************)
(* OptimizedMemoryQueue (memory_queue_optimized.go): Publish copies the    *)
(* message into an object of messagePool, Dequeue puts the object back     *)
(* into the pool as it returns it.                                         *)
(***************************************************************************)
\* messagePool.Get(): one of the objects the pool holds, or a new one
PoolGet ==
    pool \cup (IF PoolPtrs \ pobjs # {}
                THEN {CHOOSE o \in PoolPtrs \ pobjs : \A x \in PoolPtrs \ pobjs : o <= x}
                ELSE {})

\* the field-by-field copy of Publish into the pooled object
CopyInto(dst, src) ==
    [dst EXCEPT !.id = src.id, !.timestamp = src.timestamp, !.source = src.source,
                !.payload = src.payload, !.metadata = src.metadata]

\* Publish(ctx, msg) up to its select: Get, then the copy.  There is no check
\* of q.closed.
OptPublishCall(p) ==
    /\ ppc[p] = "idle"
    /\ nextMsg < MaxMsgs
    /\ \E done \in BOOLEAN, o \in PoolGet :
         LET ptr == nextMsg + 1
             msg == NewMessage(ptr, p) IN
         /\ nextMsg' = ptr
         /\ heap' = [heap EXCEPT ![ptr] = msg, ![o] = CopyInto(@, msg)]
         /\ pool' = pool \ {o}
         /\ pobjs' = pobjs \cup {o}
         /\ pcall' = [pcall EXCEPT ![p] = [ptr |-> o, ctxDone |-> done]]
    /\ ppc' = [ppc EXCEPT ![p] = "select"]
    /\ pres' = [pres EXCEPT ![p] = "pending"]
    /\ UNCHANGED <<messages, closed, stats, ctx, svariant, sret, clret, qimpl, ssrc, spc, sheld,
                   msgChan, msgChanClosed, accepted, received, eos, cheld>>
    /\ UNCHANGED <<wpVars, compVars, brkVars, aggVars, adpVars>>

\* The select of Publish: the pooled object goes into q.messages, or back
\* into the pool with an error returned.
OptPublishSelect(p) ==
    /\ ppc[p] = "select"
    /\ \E o \in EnqueueSelect(messages[1], QueueCap, closed[1], pcall[p].ctxDone) :
         CASE o = "sent" ->
                /\ messages' = [messages EXCEPT ![1] = Append(@, pcall[p].ptr)]
                /\ accepted' = Append(accepted, [ptr |-> pcall[p].ptr,
                                                 msg |-> heap[pcall[p].ptr]])
                /\ ppc' = [ppc EXCEPT ![p] = "count"]
                /\ UNCHANGED <<pres, pcall, pool>>
           [] o = "panic" ->
                /\ ppc' = [ppc EXCEPT ![p] = "panicked"]
                /\ pres' = [pres EXCEPT ![p] = "panic"]
                /\ pcall' = [pcall EXCEPT ![p] = NoCall]
                /\ UNCHANGED <<messages, accepted, pool>>
           [] OTHER ->
                /\ pool' = pool \cup {pcall[p].ptr}
                /\ ppc' = [ppc EXCEPT ![p] = "idle"]
                /\ pres' = [pres EXCEPT ![p] = o]
                /\ pcall' = [pcall EXCEPT ![p] = NoCall]
                /\ UNCHANGED <<messages, accepted>>
    /\ UNCHANGED <<heap, nextMsg, closed, stats, ctx, svariant, sret, clret, qimpl, ssrc, spc, sheld,
                   msgChan, msgChanClosed, received, eos, pobjs, cheld>>
    /\ UNCHANGED <<wpVars, compVars, brkVars, aggVars, adpVars>>

\* A call of Dequeue(ctx) that gets a message: TotalDequeued++, the deferred
\* messagePool.Put(msg), and the same pointer returned to the caller, who
\* keeps it.
OptDequeue ==
    /\ "msg" \in DequeueSelect(messages[1], closed[1], CtxDone(ctx))
    /\ LET ptr == Head(messages[1]) IN
         /\ messages' = [messages EXCEPT ![1] = Tail(@)]
         /\ stats' = [stats EXCEPT ![1].TotalDequeued = @ + 1]
         /\ pool' = pool \cup {ptr}
         /\ cheld' = Append(cheld, [ptr |-> ptr, msg |-> heap[ptr]])
    /\ UNCHANGED <<heap, nextMsg, closed, ppc, pcall, pres, ctx, svariant, sret, clret, qimpl, ssrc,
                   spc, sheld, msgChan, msgChanClosed, accepted, received, eos, pobjs>>
    /\ UNCHANGED <<wpVars, compVars, brkVars, aggVars, adpVars>>

(***************************************************************************)
(* MemoryQueue.Close and the scope.                                        *)
(***************************************************************************)
\* a Close that closes the channel whatever q.closed says
CloseClosesAlways(isClosed) == TRUE

\* `if !q.closed { q.closed = true; close(q.messages) ... }`: whether Close
\* closes the channel
CloseCloses(isClosed) == ~isClosed

\* q.closed of every queue after Close has run on the queues qs
ClosedAfterClose(qs) ==
    [q \in Queues |-> closed[q] \/ (q \in qs /\ CloseCloses(closed[q]))]

\* (variant: Close of either queue empties the channel)
MessagesAfterCloseDiscards(qs) ==
    [q \in Queues |->
        IF q \in qs /\ CloseCloses(closed[q]) /\ ~closed[q] THEN <<>> ELSE messages[q]]

\* the buffers after Close on qs: OptimizedMemoryQueue.Close returns what is
\* left in the channel to the pool, MemoryQueue.Close leaves it there
MessagesAfterClose(qs) ==
    [q \in Queues |->
        IF q \in qs /\ CloseCloses(closed[q]) /\ ~closed[q] /\ qimpl[q] = "optimized"
          THEN <<>> ELSE messages[q]]

\* what Close on qs returns: nil, unless close() runs on a closed channel,
\* which panics
CloseReturns(qs) ==
    [err |-> IF \E q \in qs : CloseCloses(closed[q]) /\ closed[q] THEN "panic" ELSE "nil",
     onClosed |-> \A q \in qs : closed[q]]

\* Close() of the memory provider
Close ==
    /\ closed' = ClosedAfterClose({1})
    /\ messages' = MessagesAfterClose({1})
    /\ clret' = CloseReturns({1})
    /\ UNCHANGED <<heap, nextMsg, stats, ppc, pcall, pres, ctx, svariant, sret, qimpl, ssrc,
                   spc, sheld, msgChan, msgChanClosed, accepted, received, eos>>
    /\ UNCHANGED nonMQ

\* the one Close() of a provider that is closed once
CloseOnce == ~closed[1] /\ Close

\* cancel() of a context.WithCancel scope
Cancel ==
    /\ ctx = "live"
    /\ ctx' = "canceled"
    /\ UNCHANGED <<heap, nextMsg, messages, closed, stats, ppc, pcall, pres,
                   svariant, sret, clret, qimpl, ssrc, spc, sheld, msgChan, msgChanClosed, accepted, received, eos>>
    /\ UNCHANGED nonMQ

\* the deadline of a context.WithTimeout scope passes
Deadline ==
    /\ ctx = "live"
    /\ ctx' = "deadline"
    /\ UNCHANGED <<heap, nextMsg, messages, closed, stats, ppc, pcall, pres,
                   svariant, sret, clret, qimpl, ssrc, spc, sheld, msgChan, msgChanClosed, accepted, received, eos>>
    /\ UNCHANGED nonMQ

(***************************************************************************)
(* WorkerPool (worker_pool.go).                                            *)
(***************************************************************************)
NoResult == [message_id |-> 0, success |-> FALSE, result |-> <<>>]

\* the workers Start launches: `for i := 0; i < wp.workers; i++`
Pool == 1..nworkers

\* (variant: three slots of wp.results for each worker)
ResultsCapTriple == nworkers * (resultsBufferMultiplier + 1)

\* capacity of wp.results (NewWorkerPool)
ResultsCap == nworkers * resultsBufferMultiplier

\* (variant: the result echoes the source of the message instead of its id)
processMessageWrongId(msg) ==
    [message_id |-> msg.source + MaxMsgs, success |-> TRUE,
     result |-> <<"PROCESSED_">> \o msg.payload]

\* processMessage: prefix the payload, echo the id, success = true
\* (ProcessedAt, a clock reading, is left out).
processMessage(msg) ==
    [message_id |-> msg.id, success |-> TRUE, result |-> <<"PROCESSED_">> \o msg.payload]

\* (variant: every call counts as an error)
updateStatsInverted(st, success) ==
    IF success THEN [st EXCEPT !.ErrorCount = @ + 1]
               ELSE [st EXCEPT !.ProcessedCount = @ + 1]

\* updateStats(success, duration) without the duration
updateStats(st, success) ==
    IF success THEN [st EXCEPT !.ProcessedCount = @ + 1]
               ELSE [st EXCEPT !.ErrorCount = @ + 1]

\* Start(ctx): Subscribe once, then launch the workers.  Subscribe on a
\* memory provider never fails.
Start ==
    /\ spc = "none"
    /\ \A w \in Workers : wpc[w] = "none"
    /\ \E v \in {"queue", "adapter"} : svariant' = v
    /\ sret' = [err |-> "nil"]
    /\ spc' = "dequeue"
    /\ wpc' = [w \in Workers |-> IF w \in Pool THEN "recv" ELSE "none"]
    /\ UNCHANGED <<clret, qimpl, ssrc, heap, nextMsg, messages, closed, stats, ppc, pcall, pres, ctx,
                   sheld, msgChan, msgChanClosed, accepted, received, eos>>
    /\ UNCHANGED <<wmsg, wres, results, resultsClosed, wpStats, stopPc, drainPc,
                   wread, emitted, collected, ncollected>>
    /\ UNCHANGED <<nworkers, compVars, brkVars, otherVars>>

\* The first select of runWorker:
\*   case msg = <-wp.msgChan   ready iff the channel holds a message or is
\*                             closed (then msg == nil and the worker returns)
\*   case <-ctx.Done()         return
WorkerRecvSelect(ch, isClosed, done) ==
    (IF ch # <<>> THEN {"msg"} ELSE IF isClosed THEN {"nil"} ELSE {})
    \cup (IF done THEN {"return"} ELSE {})

WorkerRecv(w) ==
    /\ wpc[w] = "recv"
    /\ \E o \in WorkerRecvSelect(msgChan, msgChanClosed, CtxDone(ctx)) :
         IF o = "msg"
           THEN /\ wmsg' = [wmsg EXCEPT ![w] = Head(msgChan)]
                /\ msgChan' = Tail(msgChan)
                /\ wread' = Append(wread, Head(msgChan))
                /\ wpc' = [wpc EXCEPT ![w] = "process"]
           ELSE /\ wpc' = [wpc EXCEPT ![w] = "exited"]
                /\ UNCHANGED <<wmsg, msgChan, wread>>
    /\ UNCHANGED <<heap, nextMsg, messages, closed, stats, ppc, pcall, pres, ctx,
                   svariant, sret, clret, qimpl, ssrc, spc, sheld, msgChanClosed, accepted, received, eos>>
    /\ UNCHANGED <<wres, results, resultsClosed, wpStats, stopPc, drainPc,
                   emitted, collected, ncollected>>
    /\ UNCHANGED <<nworkers, compVars, brkVars, otherVars>>

\* result := wp.processMessage(msg), which ends with updateStats(true, ...).
WorkerProcess(w) ==
    /\ wpc[w] = "process"
    /\ wres' = [wres EXCEPT ![w] = processMessage(heap[wmsg[w]])]
    /\ wpStats' = updateStats(wpStats, TRUE)
    /\ wmsg' = [wmsg EXCEPT ![w] = Nil]
    /\ wpc' = [wpc EXCEPT ![w] = "emit"]
    /\ UNCHANGED mqVars
    /\ UNCHANGED <<nworkers, compVars, brkVars, otherVars>>
    /\ UNCHANGED <<results, resultsClosed, stopPc, drainPc, wread, emitted,
                   collected, ncollected>>

\* (variant: the second select without its ctx.Done() case)
EmitSelectNoCancel(ch, cap, done) ==
    IF Len(ch) < cap THEN {"sent"} ELSE {}

\* (variant: a worker that finds wp.results full gives the result up)
EmitSelectGivesUpOnFull(ch, cap, done) ==
    IF Len(ch) < cap THEN {"sent"} ELSE {"return"}

\* The second select of runWorker:
\*   case wp.results <- result   ready iff wp.results has room
\*   case <-ctx.Done()           return (the result is discarded)
EmitSelect(ch, cap, done) ==
    (IF Len(ch) < cap THEN {"sent"} ELSE {}) \cup (IF done THEN {"return"} ELSE {})

WorkerEmit(w) ==
    /\ wpc[w] = "emit"
    /\ \E o \in EmitSelect(results, ResultsCap, CtxDone(ctx)) :
         CASE o = "sent" ->
                /\ results' = Append(results, wres[w])
                /\ emitted' = emitted + 1
                /\ wpc' = [wpc EXCEPT ![w] = "recv"]
           [] OTHER ->
                /\ wpc' = [wpc EXCEPT ![w] = "exited"]
                /\ UNCHANGED <<results, emitted>>
    /\ wres' = [wres EXCEPT ![w] = NoResult]
    /\ UNCHANGED mqVars
    /\ UNCHANGED <<nworkers, compVars, brkVars, otherVars>>
    /\ UNCHANGED <<wmsg, resultsClosed, wpStats, stopPc, drainPc, wread,
                   collected, ncollected>>

\* GetStats(): the snapshot a caller gets now.
GetStats == wpStats

\* The external reader of Results() takes a result.
ResultsRecv ==
    /\ results # <<>>
    /\ collected' = collected \cup {Head(results)}
    /\ ncollected' = ncollected + 1
    /\ results' = Tail(results)
    /\ UNCHANGED mqVars
    /\ UNCHANGED <<nworkers, compVars, brkVars, otherVars>>
    /\ UNCHANGED <<wpc, wmsg, wres, resultsClosed, wpStats, stopPc, drainPc,
                   wread, emitted>>

\* Stop() is called (once, after Start) and enters wp.wg.Wait().
StopCall ==
    /\ stopPc = "none"
    /\ \A w \in Pool : wpc[w] # "none"
    /\ stopPc' = "waiting"
    /\ UNCHANGED mqVars
    /\ UNCHANGED <<nworkers, compVars, brkVars, otherVars>>
    /\ UNCHANGED <<wpc, wmsg, wres, results, resultsClosed, wpStats, drainPc,
                   wread, emitted, collected, ncollected>>

\* (variant: Stop without wp.wg.Wait())
StopFinishNoWait ==
    /\ stopPc = "waiting"
    /\ stopPc' = "returned"
    /\ drainPc' = "running"
    /\ resultsClosed' = TRUE
    /\ UNCHANGED mqVars
    /\ UNCHANGED <<nworkers, compVars, brkVars, otherVars>>
    /\ UNCHANGED <<wpc, wmsg, wres, results, wpStats, wread, emitted, collected,
                   ncollected>>

\* wg.Wait() returns once every worker has run wg.Done(); Stop then starts the
\* draining goroutine, closes wp.results and returns.
StopFinish ==
    /\ stopPc = "waiting"
    /\ \A w \in Pool : wpc[w] = "exited"
    /\ stopPc' = "returned"
    /\ drainPc' = "running"
    /\ resultsClosed' = TRUE
    /\ UNCHANGED mqVars
    /\ UNCHANGED <<nworkers, compVars, brkVars, otherVars>>
    /\ UNCHANGED <<wpc, wmsg, wres, results, wpStats, wread, emitted, collected,
                   ncollected>>

\* for res := range wp.results { _ = res }
DrainStep ==
    /\ drainPc = "running"
    /\ IF results # <<>>
         THEN /\ results' = Tail(results)
              /\ drainPc' = drainPc
         ELSE /\ resultsClosed
              /\ drainPc' = "done"
              /\ results' = results
    /\ UNCHANGED mqVars
    /\ UNCHANGED <<nworkers, compVars, brkVars, otherVars>>
    /\ UNCHANGED <<wpc, wmsg, wres, resultsClosed, wpStats, stopPc, wread,
                   emitted, collected, ncollected>>

InitWorkers ==
    /\ wpc = [w \in Workers |-> "none"]
    /\ wmsg = [w \in Workers |-> Nil]
    /\ wres = [w \in Workers |-> NoResult]
    /\ results = <<>>
    /\ resultsClosed = FALSE
    /\ wpStats = [ProcessedCount |-> 0, ErrorCount |-> 0]
    /\ stopPc = "none"
    /\ drainPc = "none"
    /\ wread = <<>>
    /\ emitted = 0
    /\ collected = {}
    /\ ncollected = 0

\* NewWorkerPool(queue, NWorkers)
InitWP == InitWorkers /\ nworkers = NWorkers

(***************************************************************************)
(* CompositeAdapter (composite_adapter.go).  Child c publishes into queue  *)
(* c when it is a memory provider; a failing child's Publish returns an    *)
(* error (MockProvider with publishError set).                             *)
(***************************************************************************)
Kids == 1..Len(ckind)

\* the scope a child's Publish gets: groupCtx (errgroup.WithContext(ctx)),
\* cancelled with ctx or by the first failing child, under FailFast; ctx
\* itself under BestEffort
ChildCtxDone ==
    IF cstrategy = "FailFast" THEN ccall.ctxDone \/ groupDone ELSE ccall.ctxDone

\* (variant: only the first provider is counted)
CompositeStatsFirstOnly ==
    IF Len(ckind) = 0
      THEN [TotalEnqueued |-> 0, TotalDequeued |-> 0, CurrentSize |-> 0]
      ELSE IF ckind[1] = "memory" THEN Stats(1)
           ELSE [TotalEnqueued |-> 0, TotalDequeued |-> 0, CurrentSize |-> 0]

\* what provider.Stats() returns for child c
ChildStats(c) ==
    IF ckind[c] = "memory" THEN Stats(c)
    ELSE [TotalEnqueued |-> 0, TotalDequeued |-> 0, CurrentSize |-> 0]

RECURSIVE SumStats(_)
SumStats(n) ==
    IF n = 0 THEN [TotalEnqueued |-> 0, TotalDequeued |-> 0, CurrentSize |-> 0]
    ELSE LET rest == SumStats(n - 1)
             st == ChildStats(n)
         IN  [TotalEnqueued |-> rest.TotalEnqueued + st.TotalEnqueued,
              TotalDequeued |-> rest.TotalDequeued + st.TotalDequeued,
              CurrentSize   |-> rest.CurrentSize + st.CurrentSize]

\* CompositeAdapter.Stats: the sums over all providers
CompositeStats == SumStats(Len(ckind))

\* (variant: BestEffort reports a failure as soon as one child failed)
PublishReturnsAnyFailure(strategy, first, failures, n) ==
    IF strategy = "FailFast"
      THEN (IF first # "nil" THEN "failed to publish to all providers" ELSE "nil")
      ELSE (IF failures > 0 THEN "failed to publish to all providers" ELSE "nil")

\* (variant: BestEffort reports a failure when every child failed)
PublishReturnsAllFailed(strategy, first, failures, n) ==
    IF strategy = "FailFast"
      THEN (IF first # "nil" THEN "failed to publish to all providers" ELSE "nil")
      ELSE (IF failures = n THEN "failed to publish to all providers" ELSE "nil")

\* What Publish returns once every child's goroutine is done: under FailFast
\* g.Wait()'s error, wrapped; under BestEffort nil, whatever errorCount is.
PublishReturns(strategy, first, failures, n) ==
    IF strategy = "FailFast"
      THEN (IF first # "nil" THEN "failed to publish to all providers" ELSE "nil")
      ELSE "nil"

\* Publish(ctx, msg) is called with a live or cancelled ctx; with providers it
\* starts one goroutine per provider.
CompositePublishCall ==
    /\ cpc = "idle"
    /\ nextMsg < MaxMsgs
    /\ \E done \in BOOLEAN :
         LET ptr == nextMsg + 1 IN
         /\ nextMsg' = ptr
         /\ heap' = [heap EXCEPT ![ptr] = NewMessage(ptr, 1)]
         /\ ccall' = [ptr |-> ptr, ctxDone |-> done,
                      before |-> [c \in Children |-> stats[c].TotalEnqueued],
                      free |-> \A c \in Kids : Len(messages[c]) < QueueCap]
    /\ IF Len(ckind) = 0
         THEN /\ cret' = "ErrNoProvidersConfigured"
              /\ UNCHANGED <<cpc, gpc, gerr>>
         ELSE /\ cret' = "pending"
              /\ cpc' = "wait"
              /\ gpc' = [c \in Children |-> IF c \in Kids THEN "run" ELSE "idle"]
              /\ gerr' = [c \in Children |-> "pending"]
    /\ groupErr' = "nil"
    /\ groupDone' = FALSE
    /\ errorCount' = 0
    /\ UNCHANGED <<messages, closed, stats, ppc, pcall, pres, ctx, svariant, sret, clret, qimpl, ssrc, spc,
                   sheld, msgChan, msgChanClosed, accepted, received, eos>>
    /\ UNCHANGED <<wpVars, brkVars, otherVars, csent, ckind, cstrategy>>

\* The goroutine of child c ends with err: under FailFast errgroup keeps the
\* first non-nil error and cancels groupCtx; under BestEffort errorCount++.
ChildDone(c, err) ==
    /\ gpc' = [gpc EXCEPT ![c] = "done"]
    /\ gerr' = [gerr EXCEPT ![c] = err]
    /\ IF cstrategy = "FailFast"
         THEN /\ groupErr' = (IF err # "nil" /\ groupErr = "nil" THEN err ELSE groupErr)
              /\ groupDone' = (groupDone \/ err # "nil")
              /\ UNCHANGED errorCount
         ELSE /\ errorCount' = (IF err # "nil" THEN errorCount + 1 ELSE errorCount)
              /\ UNCHANGED <<groupErr, groupDone>>

\* provider.Publish starts: a failing child returns its error; a MemoryQueue
\* child runs the RLock'd check of q.closed, which OptimizedMemoryQueue.Publish
\* does not have.
ChildPublishStart(c) ==
    /\ c \in Kids
    /\ gpc[c] = "run"
    /\ IF ckind[c] = "failing"
         THEN ChildDone(c, "mock error")
         ELSE IF closed[c] /\ qimpl[c] = "memory"
                THEN ChildDone(c, "ErrQueueClosed")
                ELSE /\ gpc' = [gpc EXCEPT ![c] = "select"]
                     /\ UNCHANGED <<gerr, groupErr, groupDone, errorCount>>
    /\ UNCHANGED mqVars
    /\ UNCHANGED <<wpVars, brkVars, otherVars, csent, ckind, cstrategy, cpc, ccall, cret>>

\* the select of Enqueue in a memory child
ChildPublishSelect(c) ==
    /\ c \in Kids
    /\ gpc[c] = "select"
    /\ \E o \in EnqueueSelect(messages[c], QueueCap, closed[c], ChildCtxDone) :
         CASE o = "sent" ->
                /\ messages' = [messages EXCEPT ![c] = Append(@, ccall.ptr)]
                /\ csent' = [csent EXCEPT ![c] = Append(@, ccall.ptr)]
                /\ gpc' = [gpc EXCEPT ![c] = "count"]
                /\ UNCHANGED <<gerr, groupErr, groupDone, errorCount>>
           [] o = "panic" ->
                /\ gpc' = [gpc EXCEPT ![c] = "panicked"]
                /\ UNCHANGED <<messages, csent, gerr, groupErr, groupDone, errorCount>>
           [] OTHER ->
                /\ ChildDone(c, o)
                /\ UNCHANGED <<messages, csent>>
    /\ UNCHANGED <<heap, nextMsg, closed, stats, ppc, pcall, pres, ctx, svariant, sret, clret, qimpl, ssrc, spc,
                   sheld, msgChan, msgChanClosed, accepted, received, eos>>
    /\ UNCHANGED <<wpVars, brkVars, otherVars, ckind, cstrategy, cpc, ccall, cret>>

\* q.stats.TotalEnqueued++ in a memory child, whose Publish then returns nil
ChildPublishCount(c) ==
    /\ c \in Kids
    /\ gpc[c] = "count"
    /\ stats' = [stats EXCEPT ![c].TotalEnqueued = @ + 1]
    /\ ChildDone(c, "nil")
    /\ UNCHANGED <<heap, nextMsg, messages, closed, ppc, pcall, pres, ctx, svariant, sret, clret, qimpl, ssrc,
                   spc, sheld, msgChan, msgChanClosed, accepted, received, eos>>
    /\ UNCHANGED <<wpVars, brkVars, otherVars, csent, ckind, cstrategy, cpc, ccall, cret>>

\* g.Wait() / wg.Wait() returns when every goroutine is done; Publish returns.
CompositePublishReturn ==
    /\ cpc = "wait"
    /\ \A c \in Kids : gpc[c] = "done"
    /\ cret' = PublishReturns(cstrategy, groupErr, errorCount, Len(ckind))
    /\ cpc' = "idle"
    /\ UNCHANGED mqVars
    /\ UNCHANGED <<wpVars, brkVars, otherVars, csent, ckind, cstrategy, ccall, gpc, gerr, groupErr, groupDone,
                   errorCount>>

\* CompositeAdapter.Close(): under c.mu it calls Close() of every provider in
\* order and returns the first error, wrapped; the memory providers and the
\* mock return nil.
CompositeClose ==
    /\ LET qs == {c \in Kids : ckind[c] = "memory"} IN
         /\ closed' = ClosedAfterClose(qs)
         /\ messages' = MessagesAfterClose(qs)
         /\ clret' = CloseReturns(qs)
    /\ UNCHANGED <<heap, nextMsg, stats, ppc, pcall, pres, ctx, svariant, sret, qimpl, ssrc,
                   spc, sheld, msgChan, msgChanClosed, accepted, received, eos>>
    /\ UNCHANGED nonMQ

\* (variant: a factory that builds a composite from an empty list)
createCompositeProviderAllowsEmpty(providerTypes) == "nil"

\* Factory.createCompositeProvider for a configured list of valid provider
\* types and a valid strategy: the error it returns
createCompositeProvider(providerTypes) ==
    IF Len(providerTypes) = 0 THEN "ErrNoCompositeProvidersConfigured" ELSE "nil"

\* (variant: the stream of the last provider)
SubscribeTargetLast(n) == n

\* (variant: the stream of the second provider, when there is one)
SubscribeTargetSecond(n) == IF n >= 2 THEN 2 ELSE 1

\* c.providers[0]: the provider whose stream Subscribe returns
SubscribeTarget(n) == 1

\* CompositeAdapter.Subscribe(ctx): ErrNoProvidersConfigured without
\* providers, else Subscribe of the first provider.  A memory provider starts
\* its goroutine; the mock that fails Publish holds no messages, so its
\* goroutine closes the stream at once.
CompositeSubscribe ==
    /\ spc = "none"
    /\ IF Len(ckind) = 0
         THEN /\ sret' = [err |-> "ErrNoProvidersConfigured"]
              /\ UNCHANGED <<ssrc, spc, svariant, msgChanClosed>>
         ELSE LET t == SubscribeTarget(Len(ckind)) IN
              /\ sret' = [err |-> "nil"]
              /\ ssrc' = t
              /\ IF ckind[t] = "memory"
                   THEN /\ spc' = "dequeue"
                        /\ \E v \in {"queue", "adapter"} : svariant' = v
                        /\ UNCHANGED msgChanClosed
                   ELSE /\ spc' = "done"
                        /\ msgChanClosed' = TRUE
                        /\ UNCHANGED svariant
    /\ UNCHANGED <<heap, nextMsg, messages, closed, stats, ppc, pcall, pres, ctx, clret, qimpl,
                   sheld, msgChan, accepted, received, eos>>
    /\ UNCHANGED nonMQ

(***************************************************************************)
(* CompositeAdapter.Stats over the Stats of its providers.                 *)
(***************************************************************************)
NoStats == [TotalEnqueued |-> 0, TotalDequeued |-> 0, CurrentSize |-> 0, called |-> FALSE]

\* provider.Stats() of a provider that has published enq and delivered deq
\* messages: a memory provider reports len(q.messages), NATSAdapter.Stats
\* reports CurrentSize -1, KafkaAdapter.Stats reports 0
ProviderStats(pr) ==
    [TotalEnqueued |-> pr.enq, TotalDequeued |-> pr.deq,
     CurrentSize |-> CASE pr.kind = "memory" -> pr.enq - pr.deq
                       [] pr.kind = "streaming" -> 0 - 1
                       [] OTHER -> 0]

\* the loop of Stats: `aggregated.X += stats.X` over the providers
RECURSIVE Aggregate(_)
Aggregate(prs) ==
    IF prs = <<>>
      THEN [TotalEnqueued |-> 0, TotalDequeued |-> 0, CurrentSize |-> 0]
      ELSE LET rest == Aggregate(Tail(prs))
               st == ProviderStats(Head(prs)) IN
           [TotalEnqueued |-> st.TotalEnqueued + rest.TotalEnqueued,
            TotalDequeued |-> st.TotalDequeued + rest.TotalDequeued,
            CurrentSize |-> st.CurrentSize + rest.CurrentSize]

\* a call of CompositeAdapter.Stats() over the providers aggIn
StatsCall ==
    /\ ~aggOut.called
    /\ LET agg == Aggregate(aggIn) IN
         aggOut' = [TotalEnqueued |-> agg.TotalEnqueued, TotalDequeued |-> agg.TotalDequeued,
                    CurrentSize |-> agg.CurrentSize, called |-> TRUE]
    /\ UNCHANGED <<aggIn, ccOut>>
    /\ UNCHANGED <<mqVars, wpVars, compVars, brkVars, optVars, adpVars>>

NoClose == [called |-> FALSE, attempted |-> {}, err |-> 0]

\* (variant: the loop of Close returns at the first error)
RECURSIVE CloseFromStopsAtError(_, _)
CloseFromStopsAtError(prs, i) ==
    IF i > Len(prs) THEN [attempted |-> {}, errorsList |-> <<>>]
    ELSE IF ~prs[i].closeOk THEN [attempted |-> {i}, errorsList |-> <<i>>]
    ELSE LET rest == CloseFromStopsAtError(prs, i + 1) IN
         [attempted |-> {i} \cup rest.attempted, errorsList |-> rest.errorsList]

\* The loop of Close from provider i on: provider.Close() is called on each
\* provider, and an error it returns is appended to errorsList.
RECURSIVE CloseFrom(_, _)
CloseFrom(prs, i) ==
    IF i > Len(prs) THEN [attempted |-> {}, errorsList |-> <<>>]
    ELSE LET rest == CloseFrom(prs, i + 1) IN
         [attempted |-> {i} \cup rest.attempted,
          errorsList |-> (IF prs[i].closeOk THEN <<>> ELSE <<i>>) \o rest.errorsList]

\* a call of CompositeAdapter.Close() over the providers aggIn: nil, or
\* errorsList[0] wrapped
ProvidersCloseCall ==
    /\ ~ccOut.called
    /\ LET res == CloseFrom(aggIn, 1) IN
         ccOut' = [called |-> TRUE, attempted |-> res.attempted,
                   err |-> IF Len(res.errorsList) > 0 THEN res.errorsList[1] ELSE 0]
    /\ UNCHANGED <<aggIn, aggOut>>
    /\ UNCHANGED <<mqVars, wpVars, compVars, brkVars, optVars, adpVars>>

\* NewNATSAdapter: no call of Publish made, the counters at zero
InitNatsPub ==
    /\ npc = "idle"
    /\ nmsg = Nil
    /\ jsReply = "none"
    /\ jsStream = <<>>
    /\ ncount = [totalEnqueued |-> 0, errors |-> 0]
    /\ npret = [calls |-> 0, err |-> "nil"]

\* NewKafkaConsumer: ready: make(chan bool), no call of Subscribe made
InitKafkaSub ==
    /\ kpc = "idle"
    /\ kgo = "none"
    /\ kctx = "live"
    /\ kready = 1
    /\ kreadyClosed = {}
    /\ kwaitOn = Nil
    /\ kmsgClosed = FALSE

\* a configuration nobody has called the factory with
InitNoFactory ==
    /\ fcfg = [QueueType |-> "memory", CompositeProviders |-> <<>>,
               CompositeStrategy |-> "fail-fast", natsUp |-> TRUE, kafkaUp |-> TRUE]
    /\ fpc = "idle"
    /\ fprov = <<>>
    /\ fret = [provider |-> "nil", err |-> "none"]

InitAdapters == InitNatsPub /\ InitKafkaSub

InitNoAgg ==
    /\ aggIn = <<>>
    /\ aggOut = NoStats
    /\ ccOut = NoClose
    /\ InitAdapters
    /\ InitNoFactory

\* the providers of a composite: up to NChildren of them, memory, streaming
\* or log, each with enq <= MaxMsgs messages published and deq <= enq delivered
\* (a memory provider buffers at most QueueCap of them); Close of a log
\* provider may fail (KafkaAdapter.Close), Close of the others returns nil
ProviderStates ==
    {pr \in [kind : {"memory", "streaming", "log"}, enq : 0..MaxMsgs, deq : 0..MaxMsgs,
              closeOk : BOOLEAN] :
        /\ pr.deq <= pr.enq
        /\ pr.kind = "memory" => pr.enq - pr.deq <= QueueCap
        /\ pr.kind # "log" => pr.closeOk}

InitAgg ==
    /\ \E n \in 0..NChildren : aggIn \in [1..n -> ProviderStates]
    /\ aggOut = NoStats
    /\ ccOut = NoClose
    /\ InitAdapters
    /\ InitNoFactory

NoCompositeCall ==
    [ptr |-> Nil, ctxDone |-> FALSE, before |-> [c \in Children |-> 0], free |-> TRUE]

\* a composite that is not there (the other specifications)
InitNoComp ==
    /\ ckind = <<>>
    /\ cstrategy = "FailFast"
    /\ cpc = "idle"
    /\ ccall = NoCompositeCall
    /\ cret = "none"
    /\ gpc = [c \in Children |-> "idle"]
    /\ gerr = [c \in Children |-> "pending"]
    /\ groupErr = "nil"
    /\ groupDone = FALSE
    /\ errorCount = 0
    /\ csent = [c \in Children |-> <<>>]

\* NewCompositeAdapter(providers, strategy): any list of up to NChildren
\* providers, each a fresh memory provider or a failing one
InitComp ==
    /\ \E n \in 0..NChildren : ckind \in [1..n -> {"memory", "failing"}]
    /\ cstrategy \in {"FailFast", "BestEffort"}
    /\ cpc = "idle"
    /\ ccall = NoCompositeCall
    /\ cret = "none"
    /\ gpc = [c \in Children |-> "idle"]
    /\ gerr = [c \in Children |-> "pending"]
    /\ groupErr = "nil"
    /\ groupDone = FALSE
    /\ errorCount = 0
    /\ csent = [c \in Children |-> <<>>]

(***************************************************************************)
(* The subscribe loops over a broker: NATSSubscriber.Subscribe (streaming) *)
(* and kafkaConsumerHandler.ConsumeClaim under KafkaConsumer.Subscribe     *)
(* (log).  A record is named by its position in brecs.                     *)
(***************************************************************************)
\* (variant: every record decodes)
UnmarshalAcceptsAll(rec) == "nil"

\* json.Unmarshal(msg.Data(), &dataMsg) / json.Unmarshal(message.Value, &msg)
Unmarshal(rec) == IF rec.valid THEN "nil" ELSE "error"

\* ctx.Done() of the streaming loop
NatsCtxDone == bctx # "live"

\* session.Context().Done(): the session's scope derives from consumeCtx and
\* ends with the session
SessionDone == bctx # "live" \/ bsess # "live"

\* The record the broker hands out next.  Streaming: the oldest record not
\* yet delivered, or a record waiting for redelivery.  Log: the record at the
\* lowest uncommitted offset.
\* (variant: a record is handed out once, there is no redelivery)
DeliverableOnce(r) ==
    /\ r \in 1..Len(brecs)
    /\ bstate[r] = "pending"
    /\ bdeliv[r] = 0
    /\ \A q \in 1..(r - 1) : bstate[q] # "pending"

Deliverable(r) ==
    /\ r \in 1..Len(brecs)
    /\ bstate[r] = "pending"
    /\ IF bkind = "nats"
         THEN bdeliv[r] > 0 \/ \A q \in 1..(r - 1) : bdeliv[q] > 0
         ELSE \A q \in 1..(r - 1) : bstate[q] # "pending"

\* a producer puts a record on the stream / the topic; its bytes decode or not
BrokerAppend(v) ==
    /\ Len(brecs) < MaxRecords
    /\ brecs' = Append(brecs, [valid |-> v])
    /\ bstate' = [bstate EXCEPT ![Len(brecs) + 1] = "pending"]
    /\ UNCHANGED <<bkind, bdeliv, bctx, bsess, bpc, bcur, bchan, bchanClosed,
                   bhandoff, bsent, brecv>>
    /\ UNCHANGED <<mqVars, wpVars, compVars, otherVars, wrapVars, connVars>>

\* Subscribe(ctx): the goroutine of the loop starts (log: Consume has set the
\* session up and called ConsumeClaim)
\* A later Subscribe on the streaming subscriber (the durable consumer is
\* kept) is made once the earlier loop has returned and its stream has been
\* read to the end; it gets a new scope and makes new channels.
BrokerSubscribe ==
    /\ bsubs < MaxSubs
    /\ \/ /\ bpc = "none"
          /\ UNCHANGED <<bctx, bchan, bchanClosed, wchan, wchanClosed>>
       \/ /\ bkind = "nats"
          /\ bpc = "done"
          /\ IF bwrap THEN wrpc = "done" /\ wchan = <<>> ELSE bchan = <<>>
          /\ bctx' = "live"
          /\ bchan' = <<>>
          /\ bchanClosed' = FALSE
          /\ wchan' = <<>>
          /\ wchanClosed' = FALSE
    /\ bsubs' = bsubs + 1
    /\ bpc' = "top"
    /\ wrpc' = IF bwrap THEN "recv" ELSE wrpc
    /\ UNCHANGED <<bkind, brecs, bstate, bdeliv, bsess, bcur, bhandoff, bsent,
                   brecv, bconn>>
    /\ UNCHANGED <<bwrap, wheld, wdeq>>
    /\ UNCHANGED <<mqVars, wpVars, compVars, otherVars>>

\* streaming, head of the loop:
\*   select { case <-ctx.Done(): return; default: msg, err := iter.Next() ... }
NatsTop ==
    /\ bkind = "nats"
    /\ bpc = "top"
    /\ bpc' = IF NatsCtxDone THEN "return" ELSE "next"
    /\ UNCHANGED <<bkind, brecs, bstate, bdeliv, bctx, bsess, bcur, bchan,
                   bchanClosed, bhandoff, bsent, brecv>>
    /\ UNCHANGED <<mqVars, wpVars, compVars, otherVars, wrapVars, connVars>>

\* streaming, iter.Next(): a record is delivered, or Next returns an error
\* (timeout and the like, or the error of a closed connection) and the loop
\* sleeps and continues
NatsNext ==
    /\ bkind = "nats"
    /\ bpc = "next"
    /\ \/ \E r \in Records :
            /\ bconn = "open"
            /\ Deliverable(r)
            /\ bstate' = [bstate EXCEPT ![r] = "inflight"]
            /\ bdeliv' = [bdeliv EXCEPT ![r] = @ + 1]
            /\ bcur' = r
            /\ bhandoff' = [bhandoff EXCEPT ![r] = "none"]
            /\ bpc' = "decode"
       \/ /\ bpc' = "top"
          /\ UNCHANGED <<bstate, bdeliv, bcur, bhandoff>>
    /\ UNCHANGED <<bkind, brecs, bctx, bsess, bchan, bchanClosed, bsent, brecv>>
    /\ UNCHANGED <<mqVars, wpVars, compVars, otherVars, wrapVars, connVars>>

\* log, head of ConsumeClaim:
\*   select { case message := <-claim.Messages(): ...
\*            case <-session.Context().Done(): return nil }
\* the claim's channel is closed when the session ends (message == nil)
KafkaTop ==
    /\ bkind = "kafka"
    /\ bpc = "top"
    /\ \/ \E r \in Records :
            /\ Deliverable(r)
            /\ bstate' = [bstate EXCEPT ![r] = "inflight"]
            /\ bcur' = r
            /\ bhandoff' = [bhandoff EXCEPT ![r] = "none"]
            /\ bpc' = "decode"
            /\ UNCHANGED bdeliv
       \/ /\ SessionDone
          /\ bpc' = "return"
          /\ UNCHANGED <<bstate, bdeliv, bcur, bhandoff>>
    /\ UNCHANGED <<bkind, brecs, bctx, bsess, bchan, bchanClosed, bsent, brecv>>
    /\ UNCHANGED <<mqVars, wpVars, compVars, otherVars, wrapVars, connVars>>

\* msg.Nak(): the record is redelivered until MaxDeliver deliveries were made
Nak(r) == IF bdeliv[r] < MaxDeliver THEN "pending" ELSE "term"

\* the record is decoded; one that does not decode is negatively
\* acknowledged (streaming) or marked (log), and the loop continues
BrokerDecode ==
    /\ bpc = "decode"
    /\ IF Unmarshal(brecs[bcur]) = "nil"
         THEN /\ bpc' = "handoff"
              /\ UNCHANGED <<bstate, bcur>>
         ELSE /\ bstate' = [bstate EXCEPT
                              ![bcur] = IF bkind = "nats" THEN Nak(bcur) ELSE "marked"]
              /\ bcur' = Nil
              /\ bpc' = "top"
    /\ UNCHANGED <<bkind, brecs, bdeliv, bctx, bsess, bchan, bchanClosed,
                   bhandoff, bsent, brecv>>
    /\ UNCHANGED <<mqVars, wpVars, compVars, otherVars, wrapVars, connVars>>

\* where the loop goes after the hand-off select:
\*   case msgChan <- &dataMsg: msg.Ack() / session.MarkMessage(message, "")
\*   case <-ctx.Done():        return
\* (variant: the record is acknowledged however the select ended)
AfterHandOffAcksAnyway(o) == "ack"

AfterHandOff(o) == IF o = "sent" THEN "ack" ELSE "return"

\* the hand-off select of both loops
BrokerHandOff ==
    /\ bpc = "handoff"
    /\ \E o \in HandOffSelect(bchan, SubBufCap,
                              IF bkind = "nats" THEN NatsCtxDone ELSE SessionDone) :
         /\ IF o = "sent"
              THEN /\ bchan' = Append(bchan, bcur)
                   /\ bsent' = Append(bsent, bcur)
                   /\ bhandoff' = [bhandoff EXCEPT ![bcur] = "accepted"]
              ELSE /\ bhandoff' = [bhandoff EXCEPT ![bcur] = "interrupted"]
                   /\ UNCHANGED <<bchan, bsent>>
         /\ bpc' = AfterHandOff(o)
    /\ UNCHANGED <<bkind, brecs, bstate, bdeliv, bctx, bsess, bcur, bchanClosed,
                   brecv>>
    /\ UNCHANGED <<mqVars, wpVars, compVars, otherVars, wrapVars, connVars>>

\* msg.Ack() (its error is only logged: the record then stays unacknowledged)
\* / session.MarkMessage(message, "")
BrokerAck ==
    /\ bpc = "ack"
    /\ \/ bstate' = [bstate EXCEPT
                       ![bcur] = IF bkind = "nats" THEN "acked" ELSE "marked"]
       \/ /\ bkind = "nats"
          /\ UNCHANGED bstate
    /\ bcur' = Nil
    /\ bpc' = "top"
    /\ UNCHANGED <<bkind, brecs, bdeliv, bctx, bsess, bchan, bchanClosed,
                   bhandoff, bsent, brecv>>
    /\ UNCHANGED <<mqVars, wpVars, compVars, otherVars, wrapVars, connVars>>

\* The loop function returns.  Streaming: the deferred iter.Stop() and
\* close(msgChan) run.  Log: Consume returns to the goroutine of Subscribe,
\* which closes msgChan when consumeCtx is cancelled and otherwise consumes
\* again: a new session, which starts at the last marked offset.
BrokerReturn ==
    /\ bpc = "return"
    /\ bcur' = Nil
    /\ IF bkind = "nats" \/ bctx # "live"
         THEN /\ bchanClosed' = TRUE
              /\ bpc' = "done"
              /\ UNCHANGED <<bstate, bsess>>
         ELSE /\ bsess' = "live"
              /\ bstate' = [r \in Records |->
                              IF bstate[r] = "inflight" THEN "pending" ELSE bstate[r]]
              /\ bpc' = "top"
              /\ UNCHANGED bchanClosed
    /\ UNCHANGED <<bkind, brecs, bdeliv, bctx, bchan, bhandoff, bsent, brecv>>
    /\ UNCHANGED <<mqVars, wpVars, compVars, otherVars, wrapVars, connVars>>

\* the reader of the stream Subscribe returned takes the next message
BrokerRecv ==
    /\ IF bwrap
         THEN /\ wchan # <<>>
              /\ brecv' = Append(brecv, Head(wchan))
              /\ wchan' = Tail(wchan)
              /\ UNCHANGED bchan
         ELSE /\ bchan # <<>>
              /\ brecv' = Append(brecv, Head(bchan))
              /\ bchan' = Tail(bchan)
              /\ UNCHANGED wchan
    /\ UNCHANGED <<bkind, brecs, bstate, bdeliv, bctx, bsess, bpc, bcur,
                   bchanClosed, bhandoff, bsent>>
    /\ UNCHANGED <<bwrap, wrpc, wheld, wchanClosed, wdeq>>
    /\ UNCHANGED <<mqVars, wpVars, compVars, otherVars, connVars>>

\* The receive of the adapter's counting goroutine.
\*   NATSAdapter:  select { case msg, ok := <-msgChan: if !ok { return } ...
\*                          case <-ctx.Done(): return }
\*   KafkaAdapter: for msg := range msgChan { ... }
WrapRecvSelect(kind, ch, isClosed, done) ==
    (IF ch # <<>> THEN {"msg"} ELSE IF isClosed THEN {"closed"} ELSE {})
    \cup (IF kind = "nats" /\ done THEN {"return"} ELSE {})

\* the goroutine takes a message off the subscriber's channel and counts it
\* (atomic.AddInt64), or returns and closes its own channel
WrapRecv ==
    /\ wrpc = "recv"
    /\ \E o \in WrapRecvSelect(bkind, bchan, bchanClosed, bctx # "live") :
         IF o = "msg"
           THEN /\ wheld' = Head(bchan)
                /\ bchan' = Tail(bchan)
                /\ wdeq' = wdeq + 1
                /\ wrpc' = "send"
                /\ UNCHANGED wchanClosed
           ELSE /\ wrpc' = "done"
                /\ wchanClosed' = TRUE
                /\ UNCHANGED <<wheld, bchan, wdeq>>
    /\ UNCHANGED <<bkind, brecs, bstate, bdeliv, bctx, bsess, bpc, bcur,
                   bchanClosed, bhandoff, bsent, brecv>>
    /\ UNCHANGED <<bwrap, wchan>>
    /\ UNCHANGED <<mqVars, wpVars, compVars, otherVars, connVars>>

\* the hand-off select of the counting goroutine:
\*   select { case wrappedChan <- msg: case <-ctx.Done(): return }
WrapSend ==
    /\ wrpc = "send"
    /\ \E o \in HandOffSelect(wchan, SubBufCap, bctx # "live") :
         IF o = "sent"
           THEN /\ wchan' = Append(wchan, wheld)
                /\ wrpc' = "recv"
                /\ UNCHANGED wchanClosed
           ELSE /\ wrpc' = "done"
                /\ wchanClosed' = TRUE
                /\ UNCHANGED wchan
    /\ wheld' = Nil
    /\ UNCHANGED <<bkind, brecs, bstate, bdeliv, bctx, bsess, bpc, bcur, bchan,
                   bchanClosed, bhandoff, bsent, brecv>>
    /\ UNCHANGED <<bwrap, wdeq>>
    /\ UNCHANGED <<mqVars, wpVars, compVars, otherVars, connVars>>

\* the scope given to Subscribe is cancelled
BrokerCancel ==
    /\ bctx = "live"
    /\ bctx' = "canceled"
    /\ UNCHANGED <<bkind, brecs, bstate, bdeliv, bsess, bpc, bcur, bchan,
                   bchanClosed, bhandoff, bsent, brecv>>
    /\ UNCHANGED <<mqVars, wpVars, compVars, otherVars, wrapVars, connVars>>

\* the consumer-group session ends (a rebalance) while ConsumeClaim runs
SessionEnd ==
    /\ bkind = "kafka"
    /\ bsess = "live"
    /\ bpc \in {"top", "decode", "handoff", "ack"}
    /\ bsess' = "ended"
    /\ UNCHANGED <<bkind, brecs, bstate, bdeliv, bctx, bpc, bcur, bchan,
                   bchanClosed, bhandoff, bsent, brecv>>
    /\ UNCHANGED <<mqVars, wpVars, compVars, otherVars, wrapVars, connVars>>

\* AckWait passes for a record that was delivered and that the loop has left
\* unacknowledged: the durable consumer redelivers it until MaxDeliver
\* deliveries were made
AckWaitExpire(r) ==
    /\ bkind = "nats"
    /\ r \in 1..Len(brecs)
    /\ bstate[r] = "inflight"
    /\ bcur # r
    /\ bstate' = [bstate EXCEPT ![r] = Nak(r)]
    /\ UNCHANGED <<bkind, brecs, bdeliv, bctx, bsess, bpc, bcur, bchan,
                   bchanClosed, bhandoff, bsent, brecv>>
    /\ UNCHANGED <<mqVars, wpVars, compVars, otherVars, wrapVars, connVars>>

\* NATSAdapter.Close: subscriber.Close() does nothing, broker.Close() closes
\* the connection
BrokerClose ==
    /\ bkind = "nats"
    /\ bconn = "open"
    /\ bconn' = "closed"
    /\ UNCHANGED <<bkind, brecs, bstate, bdeliv, bctx, bsess, bpc, bcur, bchan,
                   bchanClosed, bhandoff, bsent, brecv, bsubs>>
    /\ UNCHANGED <<mqVars, wpVars, compVars, otherVars, wrapVars>>

\* no subscriber over a broker (the other specifications)
InitNoBroker ==
    /\ bkind = "nats"
    /\ brecs = <<>>
    /\ bstate = [r \in Records |-> "none"]
    /\ bdeliv = [r \in Records |-> 0]
    /\ bctx = "live"
    /\ bsess = "live"
    /\ bpc = "none"
    /\ bcur = Nil
    /\ bchan = <<>>
    /\ bchanClosed = FALSE
    /\ bhandoff = [r \in Records |-> "none"]
    /\ bsent = <<>>
    /\ brecv = <<>>
    /\ bsubs = 0
    /\ bconn = "open"
    /\ bwrap = FALSE
    /\ wrpc = "none"
    /\ wheld = Nil
    /\ wchan = <<>>
    /\ wchanClosed = FALSE
    /\ wdeq = 0

\* NewNATSSubscriber / NewKafkaConsumer over an empty stream / topic, used
\* directly or through NewNATSAdapter / NewKafkaAdapter
InitBrk ==
    /\ bkind \in {"nats", "kafka"}
    /\ brecs = <<>>
    /\ bstate = [r \in Records |-> "none"]
    /\ bdeliv = [r \in Records |-> 0]
    /\ bctx = "live"
    /\ bsess = "live"
    /\ bpc = "none"
    /\ bcur = Nil
    /\ bchan = <<>>
    /\ bchanClosed = FALSE
    /\ bhandoff = [r \in Records |-> "none"]
    /\ bsent = <<>>
    /\ brecv = <<>>
    /\ bsubs = 0
    /\ bconn = "open"
    /\ bwrap \in BOOLEAN
    /\ wrpc = "none"
    /\ wheld = Nil
    /\ wchan = <<>>
    /\ wchanClosed = FALSE
    /\ wdeq = 0

(***************************************************************************)
(* The memory provider on its own.                                         *)
(***************************************************************************)
InitQueues ==
    /\ heap = [p \in Ptrs \cup PoolPtrs |-> NoMessage]
    /\ nextMsg = 0
    /\ messages = [q \in Queues |-> <<>>]
    /\ closed = [q \in Queues |-> FALSE]
    /\ stats = [q \in Queues |-> [TotalEnqueued |-> 0, TotalDequeued |-> 0]]
    /\ ppc = [p \in Pubs |-> "idle"]
    /\ pcall = [p \in Pubs |-> NoCall]
    /\ pres = [p \in Pubs |-> "none"]
    /\ ctx = "live"
    /\ svariant = "queue"
    /\ sret = [err |-> "none"]
    /\ clret = [err |-> "none", onClosed |-> FALSE]
    /\ ssrc = 1
    /\ pobjs = {}
    /\ pool = {}
    /\ cheld = <<>>
    /\ spc = "none"
    /\ sheld = Nil
    /\ msgChan = <<>>
    /\ msgChanClosed = FALSE
    /\ accepted = <<>>
    /\ received = <<>>
    /\ eos = FALSE

vars == <<mqVars, wpVars, compVars, brkVars, otherVars>>

InitMQ == InitQueues /\ qimpl = [q \in Queues |-> "memory"] /\ InitNoAgg

Init == InitMQ /\ InitWP /\ InitNoComp /\ InitNoBroker

NextMQ ==
    \/ \E p \in Pubs : PublishCall(p)
    \/ \E p \in Pubs : PublishSelect(p)
    \/ \E p \in Pubs : PublishCount(p)
    \/ Subscribe
    \/ SubDequeue
    \/ SubDeqCount
    \/ SubSend
    \/ StreamRecv
    \/ Close
    \/ Cancel
    \/ Deadline

SpecMQ == Init /\ [][NextMQ]_vars

\* The memory provider with callers that reuse the message objects they have
\* published.
NextAlias ==
    \/ \E p \in Pubs : PublishCall(p)
    \/ \E p \in Pubs : PublishSelect(p)
    \/ \E p \in Pubs : PublishCount(p)
    \/ \E k \in 1..MaxMsgs : CallerMutate(k)
    \/ Subscribe
    \/ SubDequeue
    \/ SubDeqCount
    \/ SubSend
    \/ StreamRecv
    \/ Close
    \/ Cancel
    \/ Deadline

SpecAlias == Init /\ [][NextAlias]_vars

\* The pooled queue with a publisher and a caller of Dequeue.
NextPooled ==
    \/ \E p \in Pubs : OptPublishCall(p)
    \/ \E p \in Pubs : OptPublishSelect(p)
    \/ \E p \in Pubs : PublishCount(p)
    \/ OptDequeue

InitPooled ==
    /\ InitQueues
    /\ qimpl = [q \in Queues |-> "optimized"]
    /\ InitNoAgg
    /\ InitWP /\ InitNoComp /\ InitNoBroker

SpecPooled == InitPooled /\ [][NextPooled]_vars

(***************************************************************************)
(* The worker pool over the memory provider: the workers read the stream.  *)
(***************************************************************************)
NextWP ==
    \/ \E p \in Pubs : PublishCallLive(p)
    \/ \E p \in Pubs : PublishSelect(p)
    \/ \E p \in Pubs : PublishCount(p)
    \/ Start
    \/ SubDequeue
    \/ SubDeqCount
    \/ SubSend
    \/ \E w \in Workers : WorkerRecv(w)
    \/ \E w \in Workers : WorkerProcess(w)
    \/ \E w \in Workers : WorkerEmit(w)
    \/ ResultsRecv
    \/ StopCall
    \/ StopFinish
    \/ DrainStep
    \/ CloseOnce
    \/ Cancel
    \/ Deadline

SpecWP == Init /\ [][NextWP]_vars

\* Pools of 1..NWorkers workers: the smaller the pool, the smaller wp.results
\* (a pool of one worker has room for resultsBufferMultiplier results).
InitPool ==
    /\ InitMQ
    /\ InitWorkers
    /\ nworkers \in 1..NWorkers
    /\ InitNoComp
    /\ InitNoBroker

SpecPool == InitPool /\ [][NextWP]_vars

\* The same with the goroutines of the workers scheduled and the caller of
\* Stop running on once wg.Wait() can return; nothing is assumed about the
\* publishers, the goroutine of Subscribe or the reader of Results().
FairSpecPool ==
    /\ SpecPool
    /\ \A w \in Workers : WF_vars(WorkerRecv(w))
    /\ \A w \in Workers : WF_vars(WorkerProcess(w))
    /\ \A w \in Workers : WF_vars(WorkerEmit(w))
    /\ WF_vars(StopFinish)

\* The pool with nobody reading Results() and its scope never cancelled: the
\* input ends only by Close of the provider.  Every goroutine is scheduled.
NextPoolUnread ==
    \/ \E p \in Pubs : PublishCallLive(p)
    \/ \E p \in Pubs : PublishSelect(p)
    \/ \E p \in Pubs : PublishCount(p)
    \/ Start
    \/ SubDequeue
    \/ SubDeqCount
    \/ SubSend
    \/ \E w \in Workers : WorkerRecv(w)
    \/ \E w \in Workers : WorkerProcess(w)
    \/ \E w \in Workers : WorkerEmit(w)
    \/ StopCall
    \/ StopFinish
    \/ DrainStep
    \/ CloseOnce

FairSpecPoolUnread ==
    /\ InitPool
    /\ [][NextPoolUnread]_vars
    /\ \A p \in Pubs : WF_vars(PublishSelect(p))
    /\ \A p \in Pubs : WF_vars(PublishCount(p))
    /\ WF_vars(SubDequeue)
    /\ WF_vars(SubDeqCount)
    /\ WF_vars(SubSend)
    /\ \A w \in Workers : WF_vars(WorkerRecv(w))
    /\ \A w \in Workers : WF_vars(WorkerProcess(w))
    /\ \A w \in Workers : WF_vars(WorkerEmit(w))
    /\ WF_vars(StopFinish)
    /\ WF_vars(DrainStep)

\* The pool while its scope stays live, the provider open and the Results
\* stream drained: no cancel, no deadline, no Close (Stop would wait in
\* wg.Wait for ever).  The goroutines of the pool, the goroutine of Subscribe
\* and the reader of Results() are scheduled.
NextWPLive ==
    \/ \E p \in Pubs : PublishCallLive(p)
    \/ \E p \in Pubs : PublishSelect(p)
    \/ \E p \in Pubs : PublishCount(p)
    \/ Start
    \/ SubDequeue
    \/ SubDeqCount
    \/ SubSend
    \/ \E w \in Workers : WorkerRecv(w)
    \/ \E w \in Workers : WorkerProcess(w)
    \/ \E w \in Workers : WorkerEmit(w)
    \/ ResultsRecv

FairSpecWPLive ==
    /\ Init
    /\ [][NextWPLive]_vars
    /\ WF_vars(Start)
    /\ WF_vars(SubDequeue)
    /\ WF_vars(SubDeqCount)
    /\ WF_vars(SubSend)
    /\ \A w \in Workers : WF_vars(WorkerRecv(w))
    /\ \A w \in Workers : WF_vars(WorkerProcess(w))
    /\ \A w \in Workers : WF_vars(WorkerEmit(w))
    /\ WF_vars(ResultsRecv)

(***************************************************************************)
(* The composite over fresh children.                                      *)
(***************************************************************************)
NextComp ==
    \/ CompositePublishCall
    \/ \E c \in Children : ChildPublishStart(c)
    \/ \E c \in Children : ChildPublishSelect(c)
    \/ \E c \in Children : ChildPublishCount(c)
    \/ CompositePublishReturn

InitComposite == InitMQ /\ InitWP /\ InitComp /\ InitNoBroker

SpecComp == InitComposite /\ [][NextComp]_vars

\* The composite with a subscriber: the goroutine of the subscribed provider
\* and the reader of the stream.
NextCompSub ==
    \/ CompositePublishCall
    \/ \E c \in Children : ChildPublishStart(c)
    \/ \E c \in Children : ChildPublishSelect(c)
    \/ \E c \in Children : ChildPublishCount(c)
    \/ CompositePublishReturn
    \/ CompositeSubscribe
    \/ SubDequeue
    \/ SubDeqCount
    \/ SubSend
    \/ StreamRecv

SpecCompSub == InitComposite /\ [][NextCompSub]_vars

\* Stats() and Close() of composites over providers in any state.
NextStats ==
    \/ StatsCall
    \/ ProvidersCloseCall

InitStats ==
    /\ InitQueues
    /\ qimpl = [q \in Queues |-> "memory"]
    /\ InitWP /\ InitNoComp /\ InitNoBroker
    /\ InitAgg

SpecStats == InitStats /\ [][NextStats]_vars

\* The composite over memory children only, all MemoryQueue or all
\* OptimizedMemoryQueue, with Close() called on the composite and on its first
\* child directly.
NextCompClose ==
    \/ CompositePublishCall
    \/ \E c \in Children : ChildPublishStart(c)
    \/ \E c \in Children : ChildPublishSelect(c)
    \/ \E c \in Children : ChildPublishCount(c)
    \/ CompositePublishReturn
    \/ Close
    \/ CompositeClose

InitCompositeClose ==
    /\ InitQueues
    /\ \E impl \in {"memory", "optimized"} : qimpl = [q \in Queues |-> impl]
    /\ InitNoAgg
    /\ InitWP /\ InitComp /\ InitNoBroker
    /\ \A c \in Kids : ckind[c] = "memory"

SpecCompClose == InitCompositeClose /\ [][NextCompClose]_vars

(***************************************************************************)
(* The subscribe loops over a broker.                                      *)
(***************************************************************************)
NextBroker ==
    \/ \E v \in BOOLEAN : BrokerAppend(v)
    \/ BrokerSubscribe
    \/ NatsTop
    \/ NatsNext
    \/ KafkaTop
    \/ BrokerDecode
    \/ BrokerHandOff
    \/ BrokerAck
    \/ BrokerReturn
    \/ BrokerRecv
    \/ WrapRecv
    \/ WrapSend
    \/ BrokerCancel
    \/ SessionEnd

InitBroker == InitMQ /\ InitWP /\ InitNoComp /\ InitBrk

SpecBroker == InitBroker /\ [][NextBroker]_vars

(***************************************************************************)
(* The streaming subscriber (NATSSubscriber, without the adapter) with     *)
(* redelivery: the subscriber is called again after a cancelled Subscribe, *)
(* and the scope of the last Subscribe stays live.                         *)
(***************************************************************************)
\* cancel() of the scope of a Subscribe that is followed by a later one
BrokerCancelEarly ==
    /\ bsubs < MaxSubs
    /\ BrokerCancel

\* iter.Next() hands a record out
NatsNextMsg ==
    /\ NatsNext
    /\ bpc' = "decode"

NextRedeliver ==
    \/ \E v \in BOOLEAN : BrokerAppend(v)
    \/ BrokerSubscribe
    \/ NatsTop
    \/ NatsNext
    \/ BrokerDecode
    \/ BrokerHandOff
    \/ BrokerAck
    \/ BrokerReturn
    \/ BrokerRecv
    \/ BrokerCancelEarly
    \/ \E r \in Records : AckWaitExpire(r)

\* NewNATSSubscriber, used directly
InitStreaming ==
    /\ InitBroker
    /\ bkind = "nats"
    /\ ~bwrap

SpecRedeliver == InitStreaming /\ [][NextRedeliver]_vars

\* The goroutines and the reader of the stream are scheduled, the consumer
\* subscribes again, the ack-wait window passes, and iter.Next() hands out a
\* record when the loop keeps asking while one is due.
FairSpecRedeliver ==
    /\ SpecRedeliver
    /\ WF_vars(BrokerSubscribe)
    /\ WF_vars(NatsTop)
    /\ SF_vars(NatsNextMsg)
    /\ WF_vars(BrokerDecode)
    /\ WF_vars(BrokerHandOff)
    /\ WF_vars(BrokerAck)
    /\ WF_vars(BrokerReturn)
    /\ WF_vars(BrokerRecv)
    /\ \A r \in Records : WF_vars(AckWaitExpire(r))

(***************************************************************************)
(* NATSAdapter.Publish over NATSPublisher.Publish (JetStream).             *)
(***************************************************************************)
\* (variant: a nil acknowledgment is taken for success)
PublisherPublishIgnoresNilAck(reply) ==
    IF reply = "error" THEN "failed to publish message" ELSE "nil"

\* NATSPublisher.Publish: the error it returns for what p.js.Publish returned
PublisherPublish(reply) ==
    IF reply = "error" THEN "failed to publish message"
    ELSE IF reply = "nilack" THEN "received nil acknowledgment from JetStream"
    ELSE "nil"

\* NATSAdapter.Publish is called: the message is marshalled and handed to
\* p.js.Publish, which waits for the broker
NatsPublishCall(m) ==
    /\ npc = "idle"
    /\ npret.calls < MaxMsgs
    /\ npc' = "js"
    /\ nmsg' = m
    /\ jsReply' = "none"
    /\ UNCHANGED <<jsStream, ncount, npret>>
    /\ UNCHANGED <<mqVars, wpVars, compVars, brkVars, optVars, aggVars, kafkaSubVars, facVars>>

\* p.js.Publish returns: an acknowledgment of a stored message, a nil
\* acknowledgment, or an error (the scope ended, the connection failed, the
\* acknowledgment did not arrive in time although the message was stored)
JsPublish(reply, stored) ==
    /\ npc = "js"
    /\ reply = "ack" => stored
    /\ reply = "nilack" => ~stored
    /\ npc' = "reply"
    /\ jsReply' = reply
    /\ jsStream' = IF stored THEN Append(jsStream, nmsg) ELSE jsStream
    /\ UNCHANGED <<nmsg, ncount, npret>>
    /\ UNCHANGED <<mqVars, wpVars, compVars, brkVars, optVars, aggVars, kafkaSubVars, facVars>>

\* NATSAdapter.Publish after a.publisher.Publish returned: count and return
NatsPublishReturn ==
    /\ npc = "reply"
    /\ LET err == PublisherPublish(jsReply) IN
         /\ ncount' = IF err # "nil"
                         THEN [ncount EXCEPT !.errors = @ + 1]
                         ELSE [ncount EXCEPT !.totalEnqueued = @ + 1]
         /\ npret' = [calls |-> npret.calls + 1, err |-> err]
    /\ npc' = "idle"
    /\ UNCHANGED <<nmsg, jsReply, jsStream>>
    /\ UNCHANGED <<mqVars, wpVars, compVars, brkVars, optVars, aggVars, kafkaSubVars, facVars>>

NextStreamPub ==
    \/ \E m \in Ptrs : NatsPublishCall(m)
    \/ \E reply \in {"ack", "nilack", "error"}, stored \in BOOLEAN : JsPublish(reply, stored)
    \/ NatsPublishReturn

\* NewNATSAdapter next to providers that are not used
InitStreamPub == InitMQ /\ InitWP /\ InitNoComp /\ InitNoBroker

SpecStreamPub == InitStreamPub /\ [][NextStreamPub]_vars

(***************************************************************************)
(* KafkaConsumer.Subscribe: the caller, the Consume goroutine and the      *)
(* ready channel of the handler.                                           *)
(***************************************************************************)
\* Subscribe is called: consumeCtx is derived and the goroutine is started
KafkaSubscribeCall ==
    /\ kpc = "idle"
    /\ kpc' = "read"
    /\ kgo' = "consume"
    /\ UNCHANGED <<kctx, kready, kreadyClosed, kwaitOn, kmsgClosed>>
    /\ UNCHANGED <<mqVars, wpVars, compVars, brkVars, optVars, aggVars, natsPubVars, facVars>>

\* `<-c.handler.ready`: the caller loads the field (unsynchronised with the
\* goroutine's `c.handler.ready = make(chan bool)`) and receives from that
\* channel
KafkaSubscribeRead ==
    /\ kpc = "read"
    /\ kpc' = "wait"
    /\ kwaitOn' = kready
    /\ UNCHANGED <<kgo, kctx, kready, kreadyClosed, kmsgClosed>>
    /\ UNCHANGED <<mqVars, wpVars, compVars, brkVars, optVars, aggVars, natsPubVars, facVars>>

\* the receive from a closed channel completes: return c.handler.msgChan, nil
KafkaSubscribeReturn ==
    /\ kpc = "wait"
    /\ kwaitOn \in kreadyClosed
    /\ kpc' = "returned"
    /\ UNCHANGED <<kgo, kctx, kready, kreadyClosed, kwaitOn, kmsgClosed>>
    /\ UNCHANGED <<mqVars, wpVars, compVars, brkVars, optVars, aggVars, natsPubVars, facVars>>

\* c.consumerGroup.Consume(consumeCtx, ...): it returns an error before a
\* session exists (always so once the scope is cancelled), or it sets the
\* session up and calls handler.Setup, which closes h.ready
KafkaConsume(setup) ==
    /\ kgo = "consume"
    /\ setup => kctx = "live"
    /\ (~setup /\ kctx = "live") => kready <= MaxConsume
    /\ IF setup
         THEN /\ kreadyClosed' = kreadyClosed \cup {kready}
              /\ kgo' = "session"
         ELSE /\ kgo' = "after"
              /\ UNCHANGED kreadyClosed
    /\ UNCHANGED <<kpc, kctx, kready, kwaitOn, kmsgClosed>>
    /\ UNCHANGED <<mqVars, wpVars, compVars, brkVars, optVars, aggVars, natsPubVars, facVars>>

\* the session ends (a rebalance, or the scope is cancelled) and Consume returns
KafkaConsumeReturn ==
    /\ kgo = "session"
    /\ kctx = "canceled" \/ kready <= MaxConsume
    /\ kgo' = "after"
    /\ UNCHANGED <<kpc, kctx, kready, kreadyClosed, kwaitOn, kmsgClosed>>
    /\ UNCHANGED <<mqVars, wpVars, compVars, brkVars, optVars, aggVars, natsPubVars, facVars>>

\* after Consume: return (and close msgChan) when consumeCtx.Err() != nil,
\* otherwise a new ready channel and the next Consume
KafkaAfterConsume ==
    /\ kgo = "after"
    /\ IF kctx = "canceled"
         THEN /\ kgo' = "done"
              /\ kmsgClosed' = TRUE
              /\ UNCHANGED kready
         ELSE /\ kgo' = "consume"
              /\ kready' = kready + 1
              /\ UNCHANGED kmsgClosed
    /\ UNCHANGED <<kpc, kctx, kreadyClosed, kwaitOn>>
    /\ UNCHANGED <<mqVars, wpVars, compVars, brkVars, optVars, aggVars, natsPubVars, facVars>>

\* the scope given to Subscribe is cancelled
KafkaCancel ==
    /\ kctx = "live"
    /\ kctx' = "canceled"
    /\ UNCHANGED <<kpc, kgo, kready, kreadyClosed, kwaitOn, kmsgClosed>>
    /\ UNCHANGED <<mqVars, wpVars, compVars, brkVars, optVars, aggVars, natsPubVars, facVars>>

NextLogSub ==
    \/ KafkaSubscribeCall
    \/ KafkaSubscribeRead
    \/ KafkaSubscribeReturn
    \/ \E setup \in BOOLEAN : KafkaConsume(setup)
    \/ KafkaConsumeReturn
    \/ KafkaAfterConsume
    \/ KafkaCancel

\* NewKafkaConsumer next to providers that are not used
InitLogSub == InitMQ /\ InitWP /\ InitNoComp /\ InitNoBroker

SpecLogSub == InitLogSub /\ [][NextLogSub]_vars

\* The caller and the goroutine are scheduled, and Consume returns.
FairSpecLogSub ==
    /\ SpecLogSub
    /\ WF_vars(KafkaSubscribeRead)
    /\ WF_vars(KafkaSubscribeReturn)
    /\ WF_vars(\E setup \in BOOLEAN : KafkaConsume(setup))
    /\ WF_vars(kctx = "canceled" /\ KafkaConsumeReturn)
    /\ WF_vars(KafkaAfterConsume)

(***************************************************************************)
(* Factory.CreateProvider.                                                 *)
(***************************************************************************)
\* the strings a configuration may hold as a provider type: the four known
\* ones and one that is not known
TypeNames == {"memory", "nats", "kafka", "composite", "redis"}

\* the strings a configuration may hold as a strategy
StrategyNames == {"fail-fast", "best-effort", "round-robin"}

\* (variant: an unknown strategy falls back to FailFast)
parseCompositeStrategyDefaults(strategyStr) ==
    IF strategyStr = "best-effort"
      THEN [strategy |-> "BestEffort", err |-> "nil"]
      ELSE [strategy |-> "FailFast", err |-> "nil"]

\* Factory.parseCompositeStrategy
parseCompositeStrategy(strategyStr) ==
    IF strategyStr = "fail-fast" THEN [strategy |-> "FailFast", err |-> "nil"]
    ELSE IF strategyStr = "best-effort" THEN [strategy |-> "BestEffort", err |-> "nil"]
    ELSE [strategy |-> "FailFast", err |-> "ErrUnsupportedCompositeStrategy"]

\* Factory.createSingleProvider: the error it returns for a type, given
\* whether NewNATSAdapter and NewKafkaAdapter can reach their brokers
createSingleProvider(providerType, cfg) ==
    IF providerType = "memory" THEN "nil"
    ELSE IF providerType = "nats"
      THEN (IF cfg.natsUp THEN "nil" ELSE "failed to create NATS adapter for composite")
    ELSE IF providerType = "kafka"
      THEN (IF cfg.kafkaUp THEN "nil" ELSE "failed to create Kafka adapter for composite")
    ELSE "ErrUnsupportedQueueType"

\* Factory.CreateProvider: the switch on f.config.QueueType.  A single
\* provider is created and returned, or the creation fails; a composite with
\* an empty list fails, otherwise createProviders starts.
FactoryCreateProvider ==
    /\ fpc = "idle"
    /\ LET t == fcfg.QueueType IN
         IF t = "composite"
           THEN IF Len(fcfg.CompositeProviders) = 0
                  THEN /\ fret' = [provider |-> "nil", err |-> "ErrNoCompositeProvidersConfigured"]
                       /\ fpc' = "returned"
                       /\ UNCHANGED fprov
                  ELSE /\ fpc' = "children"
                       /\ UNCHANGED <<fprov, fret>>
           ELSE /\ fpc' = "returned"
                /\ IF t = "memory" \/ (t = "nats" /\ fcfg.natsUp) \/ (t = "kafka" /\ fcfg.kafkaUp)
                     THEN /\ fprov' = <<[kind |-> t, open |-> TRUE]>>
                          /\ fret' = [provider |-> t, err |-> "nil"]
                     ELSE /\ UNCHANGED fprov
                          /\ fret' = [provider |-> "nil",
                                      err |-> IF t = "nats" THEN "failed to create NATS adapter"
                                              ELSE IF t = "kafka" THEN "failed to create Kafka adapter"
                                              ELSE "ErrUnsupportedQueueType"]
    /\ UNCHANGED fcfg
    /\ UNCHANGED <<mqVars, wpVars, compVars, brkVars, optVars, aggVars, natsPubVars, kafkaSubVars>>

\* one iteration of the loop of createProviders: createSingleProvider for the
\* next type of the list; on an error createProviders and
\* createCompositeProvider return (nil, err) at once; after the last type
\* the strategy is parsed
FactoryCreateSingle ==
    /\ fpc = "children"
    /\ LET t == fcfg.CompositeProviders[Len(fprov) + 1]
           err == createSingleProvider(t, fcfg)
       IN IF err # "nil"
            THEN /\ fret' = [provider |-> "nil", err |-> err]
                 /\ fpc' = "returned"
                 /\ UNCHANGED fprov
            ELSE /\ fprov' = Append(fprov, [kind |-> t, open |-> TRUE])
                 /\ fpc' = IF Len(fprov) + 1 = Len(fcfg.CompositeProviders)
                              THEN "strategy" ELSE "children"
                 /\ UNCHANGED fret
    /\ UNCHANGED fcfg
    /\ UNCHANGED <<mqVars, wpVars, compVars, brkVars, optVars, aggVars, natsPubVars, kafkaSubVars>>

\* createCompositeProvider after createProviders: parseCompositeStrategy,
\* then NewCompositeAdapter(providers, strategy) or (nil, err)
FactoryParseStrategy ==
    /\ fpc = "strategy"
    /\ LET parsed == parseCompositeStrategy(fcfg.CompositeStrategy) IN
         fret' = IF parsed.err # "nil"
                   THEN [provider |-> "nil", err |-> parsed.err]
                   ELSE [provider |-> "composite", err |-> "nil"]
    /\ fpc' = "returned"
    /\ UNCHANGED <<fcfg, fprov>>
    /\ UNCHANGED <<mqVars, wpVars, compVars, brkVars, optVars, aggVars, natsPubVars, kafkaSubVars>>

NextFactory ==
    \/ FactoryCreateProvider
    \/ FactoryCreateSingle
    \/ FactoryParseStrategy

\* NewFactory(cfg) for a configuration with any type, any list of up to
\* NChildren types, any strategy, and brokers that can or cannot be reached
InitFactory ==
    /\ InitQueues
    /\ qimpl = [q \in Queues |-> "memory"]
    /\ InitWP /\ InitNoComp /\ InitNoBroker
    /\ aggIn = <<>>
    /\ aggOut = NoStats
    /\ ccOut = NoClose
    /\ InitAdapters
    /\ \E t \in TypeNames, st \in StrategyNames, nu \in BOOLEAN, ku \in BOOLEAN :
         \E n \in 0..NChildren : \E ps \in [1..n -> TypeNames] :
            fcfg = [QueueType |-> t, CompositeProviders |-> ps,
                    CompositeStrategy |-> st, natsUp |-> nu, kafkaUp |-> ku]
    /\ fpc = "idle"
    /\ fprov = <<>>
    /\ fret = [provider |-> "nil", err |-> "none"]

SpecFactory == InitFactory /\ [][NextFactory]_vars

(***************************************************************************)
(* Both subscribe loops while the scope and the session stay live.         *)
(***************************************************************************)
NextBrokerLive ==
    \/ \E v \in BOOLEAN : BrokerAppend(v)
    \/ BrokerSubscribe
    \/ NatsTop
    \/ NatsNext
    \/ KafkaTop
    \/ BrokerDecode
    \/ BrokerHandOff
    \/ BrokerAck
    \/ BrokerRecv
    \/ WrapRecv
    \/ WrapSend

\* The consumer subscribes, the goroutines and the reader of the stream are
\* scheduled, and iter.Next() hands out a record when the loop keeps asking
\* while one is due.
FairSpecBrokerLive ==
    /\ InitBroker
    /\ [][NextBrokerLive]_vars
    /\ WF_vars(BrokerSubscribe)
    /\ WF_vars(NatsTop)
    /\ SF_vars(NatsNextMsg)
    /\ WF_vars(KafkaTop)
    /\ WF_vars(BrokerDecode)
    /\ WF_vars(BrokerHandOff)
    /\ WF_vars(BrokerAck)
    /\ WF_vars(BrokerRecv)
    /\ WF_vars(WrapRecv)
    /\ WF_vars(WrapSend)

(***************************************************************************)
(* The streaming adapter (NATSAdapter over NATSSubscriber) with Close.     *)
(***************************************************************************)
NextStreamClose ==
    \/ \E v \in BOOLEAN : BrokerAppend(v)
    \/ BrokerSubscribe
    \/ NatsTop
    \/ NatsNext
    \/ BrokerDecode
    \/ BrokerHandOff
    \/ BrokerAck
    \/ BrokerReturn
    \/ BrokerRecv
    \/ WrapRecv
    \/ WrapSend
    \/ BrokerCancel
    \/ BrokerClose

\* NewNATSAdapter
InitStreamingAdapter ==
    /\ InitBroker
    /\ bkind = "nats"
    /\ bwrap

SpecStreamClose == InitStreamingAdapter /\ [][NextStreamClose]_vars

\* the goroutines of the subscriber and of the adapter and the reader of the
\* stream are scheduled
FairSpecStreamClose ==
    /\ SpecStreamClose
    /\ WF_vars(NatsTop)
    /\ WF_vars(NatsNext)
    /\ WF_vars(BrokerDecode)
    /\ WF_vars(BrokerHandOff)
    /\ WF_vars(BrokerAck)
    /\ WF_vars(BrokerReturn)
    /\ WF_vars(BrokerRecv)
    /\ WF_vars(WrapRecv)
    /\ WF_vars(WrapSend)

\* The goroutine of Subscribe and the reader of the stream are scheduled: a
\* step of theirs that stays possible is eventually taken.  The subscriber of
\* the claims is active, so Subscribe is called.
FairSpecMQ ==
    /\ SpecMQ
    /\ WF_vars(Subscribe)
    /\ WF_vars(SubDequeue)
    /\ WF_vars(SubDeqCount)
    /\ WF_vars(SubSend)
    /\ WF_vars(StreamRecv)

(***************************************************************************)
(* Claims about the memory provider (checked under SpecMQ / FairSpecMQ).   *)
(***************************************************************************)
\* A Publish call of p is at its select on the open provider, no Subscribe has
\* run, and N = QueueCap publishes have succeeded: the buffer holds N messages.
AtCapacityNoSubscriber(p) ==
    /\ ppc[p] = "select"
    /\ ~closed[1]
    /\ spc = "none"
    /\ stats[1].TotalEnqueued = QueueCap
    /\ Len(messages[1]) = QueueCap

\* C3 as stated: on an open provider with no subscriber, after N successful
\* publishes the (N+1)-th Publish returns QueueFullError and CurrentSize stays
\* N -- whatever the scope of that Publish.
C3_FullReturnsQueueFull ==
    [][\A p \in Pubs :
         (AtCapacityNoSubscriber(p) /\ ppc'[p] # "select")
           => (pres'[p] = "ErrQueueFull" /\ Stats(1)'.CurrentSize = QueueCap)]_vars

\* C3 amended: on an open provider with no subscriber, after N successful
\* publishes the (N+1)-th Publish never blocks and leaves CurrentSize = N; it
\* returns QueueFullError when its scope is not cancelled, and the
\* scope-cancelled error when it is.
C3_FullReturnsQueueFullOrCanceled ==
    /\ [](\A p \in Pubs : AtCapacityNoSubscriber(p) => ENABLED PublishSelect(p))
    /\ [][\A p \in Pubs :
            (AtCapacityNoSubscriber(p) /\ ppc'[p] # "select")
              => /\ Stats(1)'.CurrentSize = QueueCap
                 /\ messages' = messages
                 /\ ppc'[p] = "idle"
                 /\ pres'[p] = (IF pcall[p].ctxDone THEN "canceled" ELSE "ErrQueueFull")]_vars

\* C3 witness: the (N+1)-th Publish has returned ErrQueueFull on a full
\* buffer that nobody reads.
C3_Witness ==
    \E p \in Pubs :
        /\ pres[p] = "ErrQueueFull"
        /\ ppc[p] = "idle"
        /\ spc = "none"
        /\ stats[1].TotalEnqueued = QueueCap
        /\ Stats(1).CurrentSize = QueueCap

\* the pointers still on their way to the reader, oldest first
Pipeline ==
    msgChan \o (IF sheld # Nil THEN <<sheld>> ELSE <<>>) \o messages[1]

\* C4: with one publisher and one subscriber the stream yields the accepted
\* messages in the order they were published, none duplicated and none
\* skipped: what the reader has got is always the first part of the accepted
\* sequence, the accepted sequence is in the order of the Publish calls, and
\* while the scope is live every accepted message not yet read is still on
\* its way, in order (closing the provider does not change this either).
C4_FIFO ==
    /\ Len(received) <= Len(accepted)
    /\ \A i \in 1..Len(received) : received[i] = accepted[i].msg
    /\ \A i, j \in 1..Len(accepted) : i < j => accepted[i].ptr < accepted[j].ptr
    /\ (spc \notin {"none"} /\ ctx = "live" /\ ~eos)
         => Pipeline = [i \in 1..(Len(accepted) - Len(received)) |->
                           accepted[Len(received) + i].ptr]

\* C4 witness: the reader has got two messages through a live, open provider
\* while a third is still on its way.
C4_Witness ==
    /\ Len(received) >= 2
    /\ Len(accepted) >= 3
    /\ ctx = "live"
    /\ ~closed[1]

\* C5: every message a Publish put into the provider is eventually read from
\* the stream, equal in id, payload, metadata, source and timestamp to what
\* was published -- unless the scope is cancelled or the provider closed
\* (both are permanent, so "never cancelled, never closed" is the case in
\* which the right-hand side can only be the delivery).
C5_EventuallyDelivered ==
    \A k \in 1..MaxMsgs :
        (Len(accepted) >= k)
          ~> \/ /\ Len(received) >= k
                /\ received[k].id = accepted[k].msg.id
                /\ received[k].payload = accepted[k].msg.payload
                /\ received[k].metadata = accepted[k].msg.metadata
                /\ received[k].source = accepted[k].msg.source
                /\ received[k].timestamp = accepted[k].msg.timestamp
             \/ ctx # "live"
             \/ closed[1]

\* C5 witness: every published message has been read, the last of them equal
\* to the message published, with the scope live and the provider open.
C5_Witness ==
    /\ Len(accepted) = MaxMsgs
    /\ Len(received) = MaxMsgs
    /\ received[MaxMsgs] = NewMessage(accepted[MaxMsgs].ptr, 1)
    /\ ctx = "live"
    /\ ~closed[1]

(***************************************************************************)
(* Claims about the worker pool (checked under SpecWP / FairSpecWP).       *)
(***************************************************************************)
\* C1: a pool of NWorkers workers over the memory provider, with the Results
\* stream drained, the scope never cancelled and the provider never closed
\* (FairSpecWPLive), eventually has emitted exactly M results for the M
\* messages the provider accepted -- not fewer, not more -- and from then on
\* GetStats reports ProcessedCount = M and ErrorCount = 0.
C1_EventuallyExactlyM ==
    /\ [](ncollected <= emitted /\ emitted <= Len(accepted))
    /\ <>[](/\ ncollected = Len(accepted)
            /\ emitted = Len(accepted)
            /\ GetStats.ProcessedCount = Len(accepted)
            /\ GetStats.ErrorCount = 0)

\* C1 witness: all MaxMsgs published messages have come out as results of a
\* live pool, and the statistics say so.
C1_Witness ==
    /\ Len(accepted) = MaxMsgs
    /\ stats[1].TotalEnqueued = MaxMsgs
    /\ ncollected = MaxMsgs
    /\ GetStats.ProcessedCount = MaxMsgs
    /\ GetStats.ErrorCount = 0
    /\ ctx = "live"
    /\ ~closed[1]

\* the results that exist: read by the consumer, on wp.results, or in the
\* hands of a worker about to emit
HeldResults == {wres[w] : w \in {v \in Workers : wpc[v] = "emit"}}
ChanResults == {results[i] : i \in 1..Len(results)}
AllResults == collected \cup ChanResults \cup HeldResults

\* C2: every result has success = true and the id of a message a worker read
\* from the input stream (with the payload processed); no message id is in
\* two results; and once as many results are collected as messages were
\* published, the set of result ids is the set of published ids.
C2_ResultsMatchMessages ==
    /\ \A r \in AllResults :
         /\ r.success
         /\ \E i \in 1..Len(wread) :
              /\ r.message_id = heap[wread[i]].id
              /\ r.result = <<"PROCESSED_">> \o heap[wread[i]].payload
    /\ \A i, j \in 1..Len(wread) : i # j => wread[i] # wread[j]
    /\ Cardinality({r.message_id : r \in AllResults})
         = ncollected + Len(results) + Cardinality({w \in Workers : wpc[w] = "emit"})
    /\ {r.message_id : r \in AllResults} \subseteq {accepted[i].msg.id : i \in 1..Len(accepted)}
    /\ ncollected = Len(accepted)
         => {r.message_id : r \in collected} = {accepted[i].msg.id : i \in 1..Len(accepted)}

\* C2 witness: both workers have produced results and the collected results
\* carry exactly the ids of the MaxMsgs published messages.
C2_Witness ==
    /\ ncollected = MaxMsgs
    /\ Len(accepted) = MaxMsgs
    /\ {r.message_id : r \in collected} = 1..MaxMsgs
    /\ \A r \in collected : r.success

(***************************************************************************)
(* Claims about the composite (checked under SpecComp).                    *)
(***************************************************************************)
\* a Publish of the composite that fanned out to its children has returned
CompositeReturned ==
    /\ cpc = "idle"
    /\ cret \notin {"none", "ErrNoProvidersConfigured"}

\* C6: under FailFast with children [memory provider with free capacity,
\* provider whose Publish always fails], whenever Publish (called with a live
\* scope) has returned, it has returned an error and the memory child holds
\* the message: its published count has gone up by one (to 1 on a fresh
\* child), whatever the order in which the two child publishes ran.
C6_FailFastMemoryChildKeepsMessage ==
    ( /\ cstrategy = "FailFast"
      /\ ckind = <<"memory", "failing">>
      /\ CompositeReturned
      /\ ~ccall.ctxDone
      /\ ccall.free )
    => /\ cret # "nil"
       /\ Stats(1).TotalEnqueued = ccall.before[1] + 1
       /\ Stats(1).CurrentSize = ccall.before[1] + 1

RECURSIVE SumBefore(_)
SumBefore(n) == IF n = 0 THEN 0 ELSE SumBefore(n - 1) + ccall.before[n]

\* C7: under FailFast, with only memory children that all have free capacity
\* and a scope that is not cancelled, Publish returns success, every child's
\* published count has gone up by exactly 1, and the composite's
\* Stats().TotalEnqueued is the sum of the children's counts (2 for two fresh
\* children after one publish).
C7_FailFastAllMemory ==
    ( /\ cstrategy = "FailFast"
      /\ Len(ckind) >= 1
      /\ \A c \in Kids : ckind[c] = "memory"
      /\ CompositeReturned
      /\ ~ccall.ctxDone
      /\ ccall.free )
    => /\ cret = "nil"
       /\ \A c \in Kids : Stats(c).TotalEnqueued = ccall.before[c] + 1
       /\ CompositeStats.TotalEnqueued = SumBefore(Len(ckind)) + Len(ckind)

\* C7 witness: one publish through a FailFast composite of two fresh memory
\* children has succeeded and the composite counts 2.
C7_Witness ==
    /\ cstrategy = "FailFast"
    /\ ckind = <<"memory", "memory">>
    /\ CompositeReturned
    /\ nextMsg = 1
    /\ ~ccall.ctxDone
    /\ cret = "nil"
    /\ CompositeStats.TotalEnqueued = 2

\* C8: under BestEffort, when at least one child succeeded and at least one
\* failed, Publish has attempted every child and returns success; every
\* child that succeeded holds the message (its published count went up by
\* one); the failures are only counted for the log.
C8_BestEffortPartialFailure ==
    ( /\ cstrategy = "BestEffort"
      /\ CompositeReturned
      /\ \E c \in Kids : gerr[c] = "nil"
      /\ \E c \in Kids : gerr[c] # "nil" )
    => /\ cret = "nil"
       /\ \A c \in Kids : gpc[c] = "done" /\ gerr[c] # "pending"
       /\ \A c \in Kids :
            gerr[c] = "nil"
              => /\ ckind[c] = "memory"
                 /\ Stats(c).TotalEnqueued = ccall.before[c] + 1
                 /\ messages[c] # <<>>
                 /\ messages[c][Len(messages[c])] = ccall.ptr
       /\ errorCount = Cardinality({c \in Kids : gerr[c] # "nil"})

\* C8 witness: BestEffort over [memory, failing]: Publish returned success,
\* the memory child counts 1 and the failing child's error was dropped.
C8_Witness ==
    /\ cstrategy = "BestEffort"
    /\ ckind = <<"memory", "failing">>
    /\ CompositeReturned
    /\ cret = "nil"
    /\ Stats(1).TotalEnqueued = 1
    /\ gerr[2] = "mock error"

\* C9 as stated: under BestEffort Publish returns success unless every child
\* failed, and an error when all children's Publish calls failed.
C9_BestEffortErrorIffAllFailed ==
    ( /\ cstrategy = "BestEffort"
      /\ CompositeReturned )
    => (cret # "nil" <=> \A c \in Kids : gerr[c] # "nil")

\* C9 amended: under BestEffort a Publish that fanned out (the composite has
\* at least one child) returns success whatever its children returned, also
\* when every child's Publish failed; the failures are counted and logged.
C9_BestEffortAlwaysSuccess ==
    ( /\ cstrategy = "BestEffort"
      /\ CompositeReturned )
    => /\ Len(ckind) >= 1
       /\ cret = "nil"
       /\ errorCount = Cardinality({c \in Kids : gerr[c] # "nil"})

\* C9 witness: BestEffort, every child failed, and Publish returned success.
C9_Witness ==
    /\ cstrategy = "BestEffort"
    /\ Len(ckind) >= 2
    /\ CompositeReturned
    /\ \A c \in Kids : gerr[c] # "nil"
    /\ errorCount = Len(ckind)
    /\ cret = "nil"

(***************************************************************************)
(* Claims about the subscribe loops over a broker (checked under           *)
(* SpecBroker).                                                            *)
(***************************************************************************)
\* the record is positively acknowledged (streaming) or marked (log)
Acked(r) == bstate[r] \in {"acked", "marked"}

SentRecords == {bsent[i] : i \in 1..Len(bsent)}

\* C10: in the streaming and the log subscribe loop, a record that decodes
\* is acknowledged (Ack) or marked for commit (MarkMessage) only after the
\* output channel has accepted its decoded message; a record whose hand-off
\* was interrupted by scope cancellation or by the end of the session is not
\* acknowledged or marked (unless a later delivery of it is handed off).
C10_AckOnlyAfterHandOff ==
    \A r \in 1..Len(brecs) :
        /\ (Acked(r) /\ Unmarshal(brecs[r]) = "nil")
              => (bhandoff[r] = "accepted" /\ r \in SentRecords)
        /\ bhandoff[r] = "interrupted" => ~Acked(r)
        /\ (bpc = "ack" /\ bcur = r) => r \in SentRecords

\* C10 witness: one record was handed off and then acknowledged or marked,
\* the hand-off of another was interrupted, the loop has ended and that
\* record is neither acknowledged nor marked.
C10_Witness ==
    /\ bpc = "done"
    /\ \E r1, r2 \in 1..Len(brecs) :
         /\ Acked(r1)
         /\ Unmarshal(brecs[r1]) = "nil"
         /\ bhandoff[r1] = "accepted"
         /\ bhandoff[r2] = "interrupted"
         /\ bstate[r2] = "inflight"

RecvRecords == {brecv[i] : i \in 1..Len(brecv)}

\* C11: no message is both acknowledged upstream and lost downstream: once
\* the adapter's stream has ended and is empty (its counting goroutine and
\* the subscribe loop have returned), every record that decodes and was
\* acked or marked at the broker has been received by the reader of the
\* stream the adapter's Subscribe returned.
C11_AckedNeverLost ==
    ( /\ bwrap
      /\ bpc = "done"
      /\ wrpc = "done"
      /\ wchan = <<>> )
    => \A r \in 1..Len(brecs) :
          (Acked(r) /\ Unmarshal(brecs[r]) = "nil") => r \in RecvRecords

(***************************************************************************)
(* Claims about redelivery by the streaming provider (checked under        *)
(* FairSpecRedeliver).                                                     *)
(***************************************************************************)
\* the hand-off of the k-th delivery of record r was cut short by the
\* cancellation of the scope, and the record is left unacknowledged
InterruptedDelivery(r, k) ==
    /\ bhandoff[r] = "interrupted"
    /\ bstate[r] = "inflight"
    /\ bdeliv[r] = k

\* C12: a record of the streaming provider that was delivered but not
\* acknowledged because the scope was cancelled during the hand-off is
\* delivered again (to a later Subscribe, after the ack-wait window), as
\* long as its delivery count has not reached MaxDeliver = 3.
C12_InterruptedIsRedelivered ==
    \A r \in Records : \A k \in 1..(MaxDeliver - 1) :
        InterruptedDelivery(r, k) ~> (bdeliv[r] > k)

\* C12 witness: a record whose first hand-off was interrupted has been
\* delivered a second time, by the loop of a later Subscribe.
C12_Witness ==
    \E r \in 1..Len(brecs) :
        /\ bsubs = 2
        /\ bdeliv[r] = 2
        /\ bcur = r
        /\ bpc = "decode"
        /\ bstate[r] = "inflight"
        /\ bctx = "live"

(***************************************************************************)
(* Claims about the end of a memory provider's stream (checked under       *)
(* FairSpecMQ).                                                            *)
(***************************************************************************)
\* C13: after the scope passed to Subscribe is cancelled, by an explicit
\* cancel or by the expiry of its deadline, the stream returned by the
\* memory provider is eventually closed and the subscribe loop has stopped.
C13_CancelledStreamCloses ==
    (spc # "none" /\ ctx # "live") ~> (spc = "done" /\ msgChanClosed)

\* C14: when Close is called on a memory provider that has a Subscribe
\* stream and the scope is never cancelled, the subscribe loop exits and the
\* stream is closed: the subscriber observes end-of-stream.
C14_ClosedProviderEndsStream ==
    (closed[1] /\ spc # "none") ~> ((spc = "done" /\ msgChanClosed /\ eos) \/ ctx # "live")

\* C14 witness: under a live scope the provider was closed, the loop has
\* returned and the reader, having got a message, has seen the end.
C14_Witness ==
    /\ closed[1]
    /\ ctx = "live"
    /\ spc = "done"
    /\ msgChanClosed
    /\ eos
    /\ Len(received) >= 1

(***************************************************************************)
(* Claims about Close of the streaming provider (checked under             *)
(* FairSpecStreamClose).                                                   *)
(***************************************************************************)
\* C15: when Close is called on a streaming provider whose Subscribe loop is
\* running and whose scope is not cancelled, the pull loop terminates (it
\* does not keep retrying on the errors of the closed connection), the
\* iterator is stopped and the subscription stream is closed.
C15_CloseEndsPullLoop ==
    (bconn = "closed" /\ bpc \notin {"none", "done"})
        ~> ((bpc = "done" /\ bchanClosed /\ wchanClosed) \/ bctx # "live")

(***************************************************************************)
(* Claims about a closed memory provider (checked under SpecMQ).           *)
(***************************************************************************)
\* C16: after Close has returned on a memory provider, every Publish and
\* every Subscribe that is called fails with ClosedError and changes neither
\* the buffer contents nor the published/delivered counters.
C16_ClosedProviderRejects ==
    [][ /\ \A p \in Pubs :
             (closed[1] /\ ppc[p] = "idle" /\ nextMsg' # nextMsg)
               => /\ pres'[p] = "ErrQueueClosed"
                  /\ messages' = messages
                  /\ stats' = stats
        /\ (closed[1] /\ spc = "none" /\ spc' # "none")
               => /\ sret'.err = "ErrQueueClosed"
                  /\ messages' = messages
                  /\ stats' = stats
      ]_vars

\* C17: Close is idempotent on the memory providers and on a composite over
\* them: a Close that finds a provider already closed returns nil (or
\* ErrQueueClosed), never closes the channel a second time (which would
\* panic), and leaves the buffer and the counters of that provider as they are.
C17_CloseIsIdempotent ==
    [][(Close \/ CompositeClose)
         => /\ clret'.err \in {"nil", "ErrQueueClosed"}
            /\ \A q \in Queues :
                 closed[q] => /\ closed'[q]
                              /\ messages'[q] = messages[q]
                              /\ stats'[q] = stats[q]]_vars

\* a Close has found every provider it covers closed, with messages still in
\* a buffer, and returned nil
C17_Witness ==
    /\ clret.onClosed
    /\ clret.err = "nil"
    /\ \E q \in Queues : closed[q] /\ messages[q] # <<>>

C19_StopUnblocksStuckWorkers ==
    (stopPc = "waiting" /\ closed[1])
        ~> (stopPc = "returned" /\ resultsClosed /\ \A w \in Pool : wpc[w] = "exited")

\* C20: a worker that holds a result leaves the emit select only by putting
\* the result into wp.results, which holds at most
\* resultsBufferMultiplier * workers results, or, when the scope is no longer
\* live, by discarding it and exiting; with the channel full and the scope
\* live it stays where it is.
C20_ResultKeptWhileLive ==
    [][ /\ Len(results') <= resultsBufferMultiplier * nworkers
        /\ \A w \in Workers :
             (wpc[w] = "emit" /\ wpc'[w] # "emit")
               => \/ /\ Len(results) < resultsBufferMultiplier * nworkers
                     /\ results' = Append(results, wres[w])
                     /\ wpc'[w] = "recv"
                  \/ /\ ctx # "live"
                     /\ results' = results
                     /\ wpc'[w] = "exited"
      ]_vars

\* a worker holds a result in front of the full results channel under a live
\* scope
C20_Witness ==
    /\ ctx = "live"
    /\ Len(results) = resultsBufferMultiplier * nworkers
    /\ \E w \in Pool : wpc[w] = "emit" /\ wres[w] # NoResult

(***************************************************************************)
(* Claims about Publish and the message objects of the memory providers.   *)
(***************************************************************************)
\* C21: a Publish on an open memory provider whose buffer has a free slot
\* always enqueues the message and goes on to return success, whatever its
\* scope: the cancellation of the scope matters only when the buffer is full.
C21_FreeSlotAlwaysEnqueues ==
    [][\A p \in Pubs :
         (/\ ppc[p] = "select"
          /\ ~closed[1]
          /\ Len(messages[1]) < QueueCap
          /\ ppc'[p] # "select")
           => /\ messages'[1] = Append(messages[1], pcall[p].ptr)
              /\ ppc'[p] = "count"]_vars

\* C22: once Publish has returned, the provider holds nothing that aliases
\* the caller's message object: whatever the caller writes to the object
\* afterwards, the k-th message read from the stream has the id, payload and
\* metadata the k-th accepted message had when it was published.
C22_PublishedMessageNotAliased ==
    \A k \in 1..Len(received) :
        /\ received[k].id = accepted[k].msg.id
        /\ received[k].payload = accepted[k].msg.payload
        /\ received[k].metadata = accepted[k].msg.metadata

\* C23: in the pooled queue an object that Dequeue has handed to its caller
\* is not taken from the pool and overwritten by a later Publish while the
\* caller holds it: every object the caller holds still has the contents it
\* had when Dequeue returned it.
C23_HeldObjectNotRecycled ==
    \A k \in 1..Len(cheld) : heap[cheld[k].ptr] = cheld[k].msg

(***************************************************************************)
(* Claims about Subscribe, Stats and Close of the composite.               *)
(***************************************************************************)
\* C24: the stream CompositeAdapter.Subscribe returns is the stream of the
\* first child: what has been read from it is, in order, the first part of
\* what the first child accepted, so a message that only another child holds
\* never appears on it.
C24_StreamOfFirstChild ==
    /\ Len(received) <= Len(csent[1])
    /\ \A k \in 1..Len(received) : received[k] = heap[csent[1][k]]

\* everything the first child accepted has been read from the stream while
\* another child holds a message the first child never got
C24_Witness ==
    /\ received # <<>>
    /\ Len(received) = Len(csent[1])
    /\ \E c \in Kids : \E k \in 1..Len(csent[c]) :
         \A j \in 1..Len(csent[1]) : csent[1][j] # csent[c][k]

\* the sum of the sizes of the providers that know their size
RECURSIVE KnownSizeSum(_)
KnownSizeSum(prs) ==
    IF prs = <<>> THEN 0
    ELSE (IF ProviderStats(Head(prs)).CurrentSize >= 0
            THEN ProviderStats(Head(prs)).CurrentSize ELSE 0)
         + KnownSizeSum(Tail(prs))

\* C25: the current size CompositeAdapter.Stats reports is the sum of the
\* sizes of the children that know theirs: a child that reports -1 adds
\* nothing and never lowers the sum.
C25_SumOfKnownSizes ==
    aggOut.called => aggOut.CurrentSize = KnownSizeSum(aggIn)

\* C26: CompositeAdapter.Close calls Close on every child, also on those
\* after a child whose Close failed; it returns nil when every Close
\* succeeded and else an error that wraps the error of the first child that
\* failed.
C26_CloseAttemptsEveryChild ==
    ccOut.called =>
        /\ ccOut.attempted = 1..Len(aggIn)
        /\ LET failed == {i \in 1..Len(aggIn) : ~aggIn[i].closeOk} IN
             IF failed = {} THEN ccOut.err = 0
             ELSE /\ ccOut.err \in failed
                  /\ \A i \in failed : ccOut.err <= i

\* Close has returned the error of a first child that failed, with a child
\* after it also closed
C26_Witness ==
    /\ ccOut.called
    /\ Len(aggIn) >= 2
    /\ ~aggIn[1].closeOk
    /\ ccOut.err = 1
    /\ 2 \in ccOut.attempted

C28_UndecodableRecordSkipped ==
    /\ [](\A i \in 1..Len(bsent) : brecs[bsent[i]].valid)
    /\ [](\A r \in RecvRecords : brecs[r].valid)
    /\ [][(bpc = "decode" /\ bpc' # "decode" /\ ~brecs[bcur].valid)
            => /\ bpc' = "top"
               /\ bstate'[bcur] = (IF bkind = "nats" THEN Nak(bcur) ELSE "marked")
               /\ bchan' = bchan]_vars
    /\ \A r \in Records :
          (r <= Len(brecs) /\ brecs[r].valid) ~> (r \in RecvRecords)

\* a valid record that follows one that did not decode has been read from
\* the stream, and the one that did not decode has not
C28_Witness ==
    \E r1, r2 \in 1..Len(brecs) :
        /\ r1 < r2
        /\ ~brecs[r1].valid
        /\ bstate[r1] \in {"pending", "term", "marked"}
        /\ bdeliv[r1] > 0 \/ bkind = "kafka"
        /\ brecs[r2].valid
        /\ r2 \in RecvRecords

(***************************************************************************)
(* Claims about Publish of the streaming provider (SpecStreamPub).         *)
(***************************************************************************)
\* C29: Publish of the streaming provider returns success and adds exactly 1
\* to published if and only if the broker returned a non-nil acknowledgment;
\* on an error or a nil acknowledgment it returns an error and published
\* stays as it was; no other step changes published.
C29_PublishedCountsAcks ==
    [][/\ NatsPublishReturn =>
            /\ (npret'.err = "nil") <=> (jsReply = "ack")
            /\ ncount'.totalEnqueued =
                   ncount.totalEnqueued + (IF jsReply = "ack" THEN 1 ELSE 0)
       /\ ~NatsPublishReturn => ncount'.totalEnqueued = ncount.totalEnqueued]_vars

\* a call acknowledged and counted, then a call that got a nil
\* acknowledgment and returned an error
C29_Witness ==
    /\ npc = "idle"
    /\ npret.calls = 2
    /\ jsReply = "nilack"
    /\ npret.err # "nil"
    /\ ncount.totalEnqueued = 1

(***************************************************************************)
(* Claims about Subscribe of the log provider (FairSpecLogSub).            *)
(***************************************************************************)
\* C30: a call of Subscribe of the log provider does not block forever: also
\* when Consume fails before the session is set up, or the scope is cancelled
\* before the session is ready, the call returns, and once the scope is
\* cancelled the stream is closed.
C30_SubscribeReturns ==
    /\ (kpc \in {"read", "wait"}) ~> (kpc = "returned")
    /\ (kpc # "idle" /\ kctx = "canceled") ~> kmsgClosed

(***************************************************************************)
(* Claims about the factory (SpecFactory).                                 *)
(***************************************************************************)
\* C31: the factory returns an error and no provider for an unknown queue
\* type and for an unknown composite strategy, and it rejects a composite
\* whose list of children names the type composite.
C31_FactoryRejectsUnknown ==
    fpc = "returned" =>
      /\ fcfg.QueueType \notin {"memory", "nats", "kafka", "composite"}
            => (fret.err = "ErrUnsupportedQueueType" /\ fret.provider = "nil")
      /\ (fcfg.QueueType = "composite"
            /\ fcfg.CompositeStrategy \notin {"fail-fast", "best-effort"})
            => /\ fret.err # "nil" /\ fret.provider = "nil"
               /\ Len(fprov) = Len(fcfg.CompositeProviders) /\ Len(fprov) > 0
                     => fret.err = "ErrUnsupportedCompositeStrategy"
      /\ (fcfg.QueueType = "composite"
            /\ \E i \in 1..Len(fcfg.CompositeProviders) :
                   fcfg.CompositeProviders[i] = "composite")
            => (fret.err # "nil" /\ fret.provider = "nil")

\* a composite of a memory provider and a composite has been refused after
\* the memory provider was created
C31_Witness ==
    /\ fpc = "returned"
    /\ fcfg.QueueType = "composite"
    /\ fcfg.CompositeProviders = <<"memory", "composite">>
    /\ Len(fprov) = 1
    /\ fret = [provider |-> "nil", err |-> "ErrUnsupportedQueueType"]

\* C40: when the factory fails to build a composite, every child provider it
\* had already created has been closed by the time the error is returned.
C40_FailedCompositeClosesChildren ==
    (fpc = "returned" /\ fret.err # "nil") =>
        \A i \in 1..Len(fprov) : ~fprov[i].open

(***************************************************************************)
(* Claims about the counters of the memory provider (SpecMQ).              *)
(***************************************************************************)
\* no Publish is between its closed check and its return, and no Dequeue is
\* between its receive and its count
Quiescent ==
    /\ \A p \in Pubs : ppc[p] \in {"idle", "panicked"}
    /\ spc # "deqcount"

\* C32: at quiescence the Stats of a memory provider satisfy
\* current_size = published - delivered and 0 <= current_size <= capacity.
C32_QuiescentStatsBalance ==
    Quiescent =>
        /\ Stats(1).CurrentSize = Stats(1).TotalEnqueued - Stats(1).TotalDequeued
        /\ 0 <= Stats(1).CurrentSize
        /\ Stats(1).CurrentSize <= QueueCap

\* after one publish and its consumption: published = 1, delivered = 1,
\* current_size = 0
C32_Witness ==
    /\ Quiescent
    /\ Len(received) = 1
    /\ Stats(1) = [TotalEnqueued |-> 1, TotalDequeued |-> 1, CurrentSize |-> 0]

\* what Publish returns when it fails
PublishErrors == {"ErrQueueFull", "ErrQueueClosed", "canceled"}

\* C33: a Publish of the memory provider that returns QueueFullError,
\* ClosedError or a scope-cancelled error leaves the buffer, published and
\* delivered unchanged; published grows only by 1 and only when a Publish
\* returns nil; the counters never decrease.
C33_FailedPublishChangesNothing ==
    [][/\ \A p \in Pubs :
            (/\ PublishCall(p) \/ PublishSelect(p) \/ PublishCount(p)
             /\ ppc'[p] = "idle"
             /\ pres'[p] \in PublishErrors)
            => (messages' = messages /\ stats' = stats)
       /\ stats'[1].TotalEnqueued # stats[1].TotalEnqueued
            => /\ stats'[1].TotalEnqueued = stats[1].TotalEnqueued + 1
               /\ \E p \in Pubs : ppc[p] # "idle" /\ ppc'[p] = "idle" /\ pres'[p] = "nil"
       /\ stats'[1].TotalDequeued >= stats[1].TotalDequeued]_vars

\* a Publish has been refused by a full buffer after another was counted
C33_Witness ==
    /\ \E p \in Pubs : ppc[p] = "idle" /\ pres[p] = "ErrQueueFull"
    /\ Len(messages[1]) = QueueCap
    /\ stats[1].TotalEnqueued = QueueCap

\* C34: for every interleaving of Publish and Close calls no Publish sends on
\* the closed buffer channel: each Publish ends by returning nil,
\* ErrQueueFull, ErrQueueClosed or a cancellation error.
C34_NoSendOnClosedChannel ==
    \A p \in Pubs :
        /\ ppc[p] # "panicked"
        /\ ppc[p] = "idle" => pres[p] \in {"none", "nil"} \cup PublishErrors

\* C35: every Stats() snapshot taken while publishers and a subscriber run
\* satisfies TotalDequeued <= TotalEnqueued.
C35_DeliveredNeverAheadOfPublished ==
    Stats(1).TotalDequeued <= Stats(1).TotalEnqueued

(***************************************************************************)
(* Claims about the counters and the result channel of the worker pool     *)
(* (SpecPool).                                                             *)
(***************************************************************************)
\* the workers that hold a result they have not emitted yet
Emitting == {w \in Pool : wpc[w] = "emit"}

\* C36: in every state of the pool, results ever placed on the result channel
\* <= ProcessedCount <= messages read from the input stream, ErrorCount = 0,
\* and the result channel holds at most 2 x n_workers results; a result is
\* counted before it is emitted, so ProcessedCount also counts the results
\* that are held and those that were discarded.
C36_PoolCounters ==
    /\ emitted <= GetStats.ProcessedCount
    /\ GetStats.ProcessedCount <= Len(wread)
    /\ GetStats.ErrorCount = 0
    /\ Len(results) <= resultsBufferMultiplier * nworkers
    /\ emitted + Cardinality(Emitting) <= GetStats.ProcessedCount

\* every worker has exited and a result that was counted was never emitted
C36_Witness ==
    /\ \A w \in Pool : wpc[w] = "exited"
    /\ GetStats.ProcessedCount > emitted
    /\ Len(results) = resultsBufferMultiplier * nworkers

\* C37: when Stop is called once after Start, the result channel is closed
\* only after every worker has exited, so no worker sends on the closed
\* channel; once Stop has returned nothing is added to the channel, so its
\* reader reaches the end after at most the results buffered then.
C37_StopClosesAfterWorkers ==
    /\ [](resultsClosed => \A w \in Pool : wpc[w] = "exited")
    /\ [][\A w \in Workers : WorkerEmit(w) => ~resultsClosed]_vars
    /\ [][stopPc = "returned" =>
             (resultsClosed' /\ Len(results') <= Len(results) /\ emitted' = emitted)]_vars

\* Stop has returned with results still buffered in the closed channel
C37_Witness ==
    /\ stopPc = "returned"
    /\ resultsClosed
    /\ results # <<>>
    /\ emitted > 0
    /\ \A w \in Pool : wpc[w] = "exited"

(***************************************************************************)
(* Claims about the messages buffered at Close (FairSpecMQ).               *)
(***************************************************************************)
\* C38: the messages buffered in a memory provider when Close is called are
\* not discarded: Close leaves the buffer as it is, and with an active
\* subscriber whose scope is not cancelled every message the provider
\* accepted is read from the stream, in order, before the stream ends.
C38_BufferedAtCloseDelivered ==
    /\ [][Close => messages' = messages]_vars
    /\ \A k \in 1..MaxMsgs :
          (closed[1] /\ Len(accepted) >= k)
             ~> ((Len(received) >= k /\ received[k] = accepted[k].msg) \/ ctx # "live")
    /\ []((eos /\ ctx = "live")
            => /\ Len(received) = Len(accepted)
               /\ \A k \in 1..Len(accepted) : received[k] = accepted[k].msg)

\* the provider is closed with a message still in its buffer, under a live
\* scope, and the subscriber, which has delivered a message already, is
\* about to receive it
C38_Witness ==
    /\ closed[1]
    /\ messages[1] # <<>>
    /\ ctx = "live"
    /\ spc = "dequeue"
    /\ Len(received) >= 1

(***************************************************************************)
(* Claims about the children of a composite that are not its first         *)
(* (SpecCompSub).                                                          *)
(***************************************************************************)
\* every child of the composite is a memory provider
AllMemory == \A c \in Kids : ckind[c] = "memory"

\* the children after the first
NonFirst == {c \in Kids : c > 1}

=============================================================================
